---- MODULE Spec2Model ----
(***************************************************************************)
(* A model of screengrabber: the SQLite-backed CacheService, the request   *)
(* handler that consults it, and the mosaic layout.                        *)
(*                                                                         *)
(* Time is a count of microseconds since the epoch.  A Python datetime is  *)
(* the record [sec, us, tz]; the text SQLite stores for it is the tuple    *)
(* <<sec>> or <<sec, us>> produced by the sqlite3 datetime adapter.        *)
(***************************************************************************)
EXTENDS Integers, Sequences, FiniteSets, TLC

(* ------------------------------ bounds -------------------------------- *)

\* While the CacheService is called directly, the clock takes each whole
\* minute 0..MaxMinutes and the microsecond after it.
MaxMinutes == 0

\* create_mosaic is given 0..MaxImages images.
MaxImages == 4

\* Repeated create_mosaic calls are given 0..MaxRepeatImages images.
MaxRepeatImages == 2

\* calculate_layout is called at most MaxLayoutCalls times on one object.
MaxLayoutCalls == 2

\* A user agent is made of at most MaxParts pieces.
MaxParts == 2

\* A post has 0..MaxMedia attached media.
MaxMedia == 2

\* The calls made while CacheService objects are constructed on a new file.
MaxConstructCalls == 4

\* CACHE_TTL_MINUTES is one of 0..MaxTtl; while requests are served, the clock
\* takes each whole minute 0..MaxTtl and the microsecond after it.
MaxTtl == 1

\* The number of requests served in one behaviour.
MaxRequests == 1

\* The number of CacheService calls started in one behaviour.
MaxCalls == 2

(* ----------------------------- value sets ----------------------------- *)

Threads == {"t1", "t2"}

Services == {"s1", "s2"}

Accounts == {"alice", "bob"}

Statuses == {"100", "200"}

\* The posts that are looked up and upserted: two accounts with one status
\* id, and one account with two.
Keys == {<<"alice", "100">>, <<"bob", "100">>, <<"alice", "200">>}

Paths == {"p1", "p2"}

Urls == {"u1"}

MediaTypes == {"image"}

\* Python's None.
NULL == "None"

NoThread == "nobody"

\* Microseconds in a second: the resolution of datetime.
USec == 1000000

\* timedelta(minutes = m) in microseconds.
Minutes(m) == m * 60 * USec

\* Each whole minute 0..n and the microsecond after it: an instant without
\* and one with a fraction of a second.
InstantsUpTo(n) ==
  UNION { { Minutes(m), Minutes(m) + 1 } : m \in 0..n }

(* ------------------------------ datetime ------------------------------ *)

\* datetime.utcnow(): the naive datetime of the wall clock.
UtcNow(now) == [sec |-> now \div USec, us |-> now % USec, tz |-> "naive"]

\* datetime.now(timezone.utc): the aware datetime of the wall clock.
NowUtc(now) == [sec |-> now \div USec, us |-> now % USec, tz |-> "utc"]

\* As AdaptDatetime, but the text is cut at the seconds.
AdaptDatetimeSeconds(d) == <<d.sec>>

\* The sqlite3 adapter binds a datetime as isoformat(" "), which leaves the
\* fraction out when the microsecond is 0.
AdaptDatetime(d) == IF d.us = 0 THEN <<d.sec>> ELSE <<d.sec, d.us>>

\* datetime.fromisoformat(text): a naive datetime; a missing fraction is 0.
FromIsoFormat(text) ==
  [sec |-> text[1], us |-> IF Len(text) >= 2 THEN text[2] ELSE 0, tz |-> "naive"]

\* d.replace(tzinfo = timezone.utc): the same fields, read as UTC.
ReplaceTzUtc(d) == [d EXCEPT !.tz = "utc"]

\* The instant a datetime names, its fields read as UTC.
InstantOf(d) == d.sec * USec + d.us

VARIABLES
  clock,        \* the wall clock, in microseconds
  screengrabs,  \* the committed rows of table twitter_screengrabs
  medias,       \* the committed rows of table twitter_screengrab_medias
  mediaSeq,     \* sqlite_sequence of twitter_screengrab_medias (AUTOINCREMENT)
  schema,       \* the tables and indexes the database file holds
  dbLock,       \* the thread whose connection holds SQLite's write lock
  svcLock,      \* per CacheService object: the holder of _connection_lock
  constructed,  \* per CacheService object: __init__ has returned
  pc,           \* per thread: its place in the running CacheService call
  call,         \* per thread: the running call
  conn,         \* per thread: its sqlite3 connection
  ret,          \* per thread: what the running call returns or raises
  last,         \* per thread: the last call that returned (history)
  writes,       \* per key: the upserts committed for it (history)
  mediaLog,     \* the add-media calls committed, in order (history)
  calls,        \* the number of calls started
  cacheEnabled, \* app.config["CACHE_ENABLED"]
  hpc,          \* per thread: its place in twitter_tweet ("none": no request)
  req,          \* per thread: the request it serves and what was decided for it
  hres,         \* per thread: what its last CacheService call returned or raised
  requests,     \* the number of requests started
  layout,       \* the MosaicLayout object of the create_mosaic call
  mosaic,       \* the create_mosaic call: its place, locals and result
  earlier,      \* the outcome of an earlier create_mosaic call (history)
  returns,      \* what the calculate_layout calls on the layout object returned (history)
  visit         \* the identify_visitor call: its place, argument and result

vars ==
  <<clock, screengrabs, medias, mediaSeq, schema, dbLock, svcLock, constructed,
    pc, call, conn, ret, last, writes, mediaLog, calls, cacheEnabled, hpc, req, hres,
    requests, layout, mosaic, earlier, returns, visit>>

hVars == <<cacheEnabled, hpc, req, hres, requests>>

mosaicVars == <<layout, mosaic, earlier, returns>>

dbVars == <<screengrabs, medias, mediaSeq, schema>>

histVars == <<last, writes, mediaLog>>

(* ------------------------------- schema ------------------------------- *)

\* The statements of _init_db, in order.
InitStatements ==
  << "PRAGMA foreign_keys",
     "twitter_screengrabs",
     "idx_twitter_screengrabs_account_name",
     "twitter_screengrab_medias",
     "idx_twitter_screengrabs_medias_status_id" >>

FullSchema == { InitStatements[i] : i \in 2..Len(InitStatements) }

(* ------------------------------ statements ---------------------------- *)

\* As ScreengrabNotNull, but s3_path is declared without NOT NULL.
ScreengrabNotNullKeys(row) ==
  /\ row.account_name # NULL
  /\ row.status_id # NULL

\* NOT NULL on every column of twitter_screengrabs; cached_at is always the
\* datetime the method itself binds, which is never None.
ScreengrabNotNull(row) ==
  /\ row.account_name # NULL
  /\ row.status_id # NULL
  /\ row.s3_path # NULL

\* As InsertOrReplaceScreengrab, but a plain INSERT into a table without the
\* primary key: the old row stays.
InsertScreengrabKeepingOld(rows, row) == rows \cup { row }

\* As InsertOrReplaceScreengrab, but with PRIMARY KEY (status_id) alone.
InsertOrReplaceByStatus(rows, row) ==
  { r \in rows : r.status_id # row.status_id } \cup { row }

\* As InsertOrReplaceScreengrab, but the write also evicts the rows cached at
\* another instant than the new one.
InsertScreengrabEvicting(rows, row) ==
  { r \in rows : r.cached_at = row.cached_at
                   /\ ~ (r.account_name = row.account_name /\ r.status_id = row.status_id) }
    \cup { row }

\* INSERT OR REPLACE INTO twitter_screengrabs: the rows that collide with the
\* new one on PRIMARY KEY (account_name, status_id) are deleted first.
InsertOrReplaceScreengrab(rows, row) ==
  { r \in rows : ~ (r.account_name = row.account_name /\ r.status_id = row.status_id) }
    \cup { row }

\* NOT NULL on every column of twitter_screengrab_medias but the id; cached_at
\* is always the datetime the method itself binds.
MediaNotNull(row) ==
  /\ row.status_id # NULL
  /\ row.s3_path # NULL
  /\ row.source_url # NULL
  /\ row.media_type # NULL

\* The largest rowid of the table, 0 when it is empty.
MaxId(rows) ==
  IF rows = {} THEN 0
  ELSE CHOOSE m \in { r.id : r \in rows } : \A r \in rows : r.id <= m

\* id INTEGER PRIMARY KEY AUTOINCREMENT: one more than the largest id ever used.
NextMediaId(rows, seq) == (IF MaxId(rows) > seq THEN MaxId(rows) ELSE seq) + 1

\* As InsertMedia, but a row of the same status id and source URL is replaced
\* (a uniqueness constraint on the two columns).
InsertMediaOnce(rows, seq, vals) ==
  { r \in rows : ~ (r.status_id = vals.status_id /\ r.source_url = vals.source_url) }
    \cup { [id |-> NextMediaId(rows, seq), status_id |-> vals.status_id,
            cached_at |-> vals.cached_at, s3_path |-> vals.s3_path,
            source_url |-> vals.source_url, media_type |-> vals.media_type] }

\* INSERT OR REPLACE INTO twitter_screengrab_medias without an id: the id is
\* fresh, so no row collides and none is replaced.
InsertMedia(rows, seq, vals) ==
  { r \in rows : r.id # NextMediaId(rows, seq) }
    \cup { [id |-> NextMediaId(rows, seq), status_id |-> vals.status_id,
            cached_at |-> vals.cached_at, s3_path |-> vals.s3_path,
            source_url |-> vals.source_url, media_type |-> vals.media_type] }

\* SELECT ... FROM twitter_screengrabs WHERE account_name = ? AND status_id = ?
SelectScreengrab(rows, account_name, status_id) ==
  { r \in rows : r.account_name = account_name /\ r.status_id = status_id }

\* As SelectMedias, but without the WHERE clause.
SelectAllMedias(rows, status_id) == rows

\* SELECT ... FROM twitter_screengrab_medias WHERE status_id = ?
SelectMedias(rows, status_id) == { r \in rows : r.status_id = status_id }

\* The rows of a result set in rowid order, the order in which SQLite walks
\* idx_twitter_screengrabs_medias_status_id for one status_id.
RECURSIVE InIdOrder(_)
InIdOrder(rows) ==
  IF rows = {} THEN <<>>
  ELSE LET first == CHOOSE r \in rows : \A q \in rows : r.id <= q.id
       IN  <<first>> \o InIdOrder(rows \ {first})

\* As GetIfExists, but a row written before the current instant counts as
\* expired and is not returned.
GetIfExistsFresh(rows, account_name, status_id) ==
  LET found == { r \in SelectScreengrab(rows, account_name, status_id) :
                   InstantOf(FromIsoFormat(r.cached_at)) >= clock }
  IN  IF found = {} THEN <<>>
      ELSE LET result == CHOOSE r \in found : TRUE
           IN  << [account_name |-> result.account_name,
                   status_id |-> result.status_id,
                   cached_at |-> ReplaceTzUtc(FromIsoFormat(result.cached_at)),
                   s3_path |-> result.s3_path] >>

\* get_twitter_screengrab_if_exists: fetchone() and the tuple built from it;
\* <<>> stands for None.
GetIfExists(rows, account_name, status_id) ==
  LET found == SelectScreengrab(rows, account_name, status_id)
  IN  IF found = {} THEN <<>>
      ELSE LET result == CHOOSE r \in found : TRUE
           IN  << [account_name |-> result.account_name,
                   status_id |-> result.status_id,
                   cached_at |-> ReplaceTzUtc(FromIsoFormat(result.cached_at)),
                   s3_path |-> result.s3_path] >>

\* get_twitter_screengrab_medias: fetchall() and the dict built from each row.
GetMedias(rows, status_id) ==
  LET results == InIdOrder(SelectMedias(rows, status_id))
  IN  [ i \in 1..Len(results) |->
          [id |-> results[i].id,
           status_id |-> results[i].status_id,
           s3_path |-> results[i].s3_path,
           source_url |-> results[i].source_url,
           media_type |-> results[i].media_type,
           cached_at |-> ReplaceTzUtc(FromIsoFormat(results[i].cached_at))] ]

(* ----------------------------- MosaicLayout --------------------------- *)

\* create_mosaic(images, width = 1200, border_size = 10).
DefaultWidth == 1200

DefaultBorderSize == 10

\* "len(current_group) < 3".
MaxGroupSize == 3

\* tolerance = 0.2.
Tolerance == <<1, 5>>

\* The declared (width, height) of the images: aspect ratios 1.0, 1.02, 3.0,
\* 0.8 and 2500.0, the last one larger than the default width.
ImageSizes == {<<100, 100>>, <<102, 100>>, <<300, 100>>, <<80, 100>>, <<2500, 1>>}

\* The floats of the layout are computed as fractions: <<n, d>> is n / d with
\* d > 0.
RECURSIVE Gcd(_, _)
Gcd(a, b) == IF b = 0 THEN a ELSE Gcd(b, a % b)

Frac(n, d) ==
  LET g == Gcd(IF n < 0 THEN -n ELSE n, d)
  IN  IF g = 0 THEN <<n, d>> ELSE <<n \div g, d \div g>>

FracAdd(x, y) == Frac(x[1] * y[2] + y[1] * x[2], x[2] * y[2])

FracSub(x, y) == Frac(x[1] * y[2] - y[1] * x[2], x[2] * y[2])

FracAbs(x) == <<IF x[1] < 0 THEN -x[1] ELSE x[1], x[2]>>

FracLeq(x, y) == x[1] * y[2] <= y[1] * x[2]

FracMax(x, y) == IF FracLeq(y, x) THEN x ELSE y

\* x / y for y > 0.
FracDiv(x, y) == Frac(x[1] * y[2], x[2] * y[1])

\* int(x): the fraction is cut off towards zero.
IntOf(x) == IF x[1] >= 0 THEN x[1] \div x[2] ELSE -((-x[1]) \div x[2])

\* Image.aspect_ratio: width / height.
AspectRatio(img) == Frac(img[1], img[2])

\* As ShouldCombineHorizontally, but the difference has to be under the
\* tolerance.
ShouldCombineStrictly(img1, img2) ==
  LET ar1 == AspectRatio(img1)
      ar2 == AspectRatio(img2)
      diff == FracDiv(FracAbs(FracSub(ar1, ar2)), FracMax(ar1, ar2))
  IN  FracLeq(diff, Tolerance) /\ diff # Tolerance

\* MosaicLayout._should_combine_horizontally: the difference of the aspect
\* ratios relative to the larger one is at most the tolerance.
ShouldCombineHorizontally(img1, img2) ==
  LET ar1 == AspectRatio(img1)
      ar2 == AspectRatio(img2)
      diff == FracDiv(FracAbs(FracSub(ar1, ar2)), FracMax(ar1, ar2))
  IN  FracLeq(diff, Tolerance)

\* As GroupFrom, but a group takes every image that combines with its last.
RECURSIVE GroupFromUncapped(_, _, _, _)
GroupFromUncapped(images, i, groups, current_group) ==
  IF i > Len(images) THEN Append(groups, current_group)
  ELSE IF ShouldCombineHorizontally(current_group[Len(current_group)], images[i])
  THEN GroupFromUncapped(images, i + 1, groups, Append(current_group, images[i]))
  ELSE GroupFromUncapped(images, i + 1, Append(groups, current_group), <<images[i]>>)

\* The loop of _group_images from image i on: groups are the closed groups
\* and current_group the open one.
RECURSIVE GroupFrom(_, _, _, _)
GroupFrom(images, i, groups, current_group) ==
  IF i > Len(images) THEN Append(groups, current_group)
  ELSE IF /\ ShouldCombineHorizontally(current_group[Len(current_group)], images[i])
          /\ Len(current_group) < MaxGroupSize
  THEN GroupFrom(images, i + 1, groups, Append(current_group, images[i]))
  ELSE GroupFrom(images, i + 1, Append(groups, current_group), <<images[i]>>)

\* MosaicLayout._group_images.
GroupImages(images) ==
  IF images = <<>> THEN <<>> ELSE GroupFrom(images, 2, <<>>, <<images[1]>>)

\* sum(img.aspect_ratio for img in group), over the first n images.
RECURSIVE GroupWidthRatio(_, _)
GroupWidthRatio(group, n) ==
  IF n = 0 THEN <<0, 1>> ELSE FracAdd(GroupWidthRatio(group, n - 1), AspectRatio(group[n]))

\* int(self.target_width / group_width_ratio).
TargetHeight(target_width, group) ==
  IntOf(FracDiv(<<target_width, 1>>, GroupWidthRatio(group, Len(group))))

\* The row before the adjustment: every image at the target height.
ScaledRow(target_width, group) ==
  [k \in 1..Len(group) |->
     <<group[k],
       <<IntOf(<<TargetHeight(target_width, group) * AspectRatio(group[k])[1],
                 AspectRatio(group[k])[2]>>),
         TargetHeight(target_width, group)>>>>]

\* total_scaled_width, over the first n images of the row.
RECURSIVE TotalScaledWidth(_, _)
TotalScaledWidth(row, n) ==
  IF n = 0 THEN 0 ELSE TotalScaledWidth(row, n - 1) + row[n][2][1]

\* As AvailableWidth, but a border is counted for every image of the group.
AvailableWidthPerImage(target_width, border_size, group) ==
  target_width - border_size * Len(group)

\* available_width: the target width less the borders between the images.
AvailableWidth(target_width, border_size, group) ==
  target_width - border_size * (Len(group) - 1)

\* The division by group_width_ratio or by total_scaled_width is one by zero.
RowDividesByZero(target_width, group) ==
  \/ GroupWidthRatio(group, Len(group))[1] = 0
  \/ TotalScaledWidth(ScaledRow(target_width, group), Len(group)) = 0

\* adjusted_row: width and height of every image times scale_factor, cut off.
AdjustedRow(target_width, border_size, group) ==
  LET row == ScaledRow(target_width, group)
      available_width == AvailableWidth(target_width, border_size, group)
      total_scaled_width == TotalScaledWidth(row, Len(group))
  IN  [k \in 1..Len(group) |->
         <<row[k][1],
           <<IntOf(<<row[k][2][1] * available_width, total_scaled_width>>),
             IntOf(<<row[k][2][2] * available_width, total_scaled_width>>)>>>>]

\* max(img[1][1] for img in row), over the first n images.
RECURSIVE RowHeight(_, _)
RowHeight(row, n) ==
  IF n = 1 THEN row[1][2][2]
  ELSE IF row[n][2][2] > RowHeight(row, n - 1) THEN row[n][2][2] ELSE RowHeight(row, n - 1)

\* As FinalHeight, but a border is added after every row.
RECURSIVE FinalHeightBordered(_, _, _)
FinalHeightBordered(rows, border_size, n) ==
  IF n = 0 THEN 0
  ELSE FinalHeightBordered(rows, border_size, n - 1) + border_size
         + RowHeight(rows[n], Len(rows[n]))

\* final_height over the first n rows: the heights of the rows and a border
\* between two rows.
RECURSIVE FinalHeight(_, _, _)
FinalHeight(rows, border_size, n) ==
  IF n = 0 THEN 0
  ELSE FinalHeight(rows, border_size, n - 1) + (IF n > 1 THEN border_size ELSE 0)
         + RowHeight(rows[n], Len(rows[n]))

\* The groups processed before one divides by zero (all, when none does).
RECURSIVE GroupsDone(_, _, _)
GroupsDone(target_width, groups, n) ==
  IF n >= Len(groups) \/ RowDividesByZero(target_width, groups[n + 1]) THEN n
  ELSE GroupsDone(target_width, groups, n + 1)

\* calculate_layout from the grouping on: each processed group is appended to
\* self.rows, and the final dimensions are those of all rows of the object.
LayoutOf(self) ==
  LET groups == GroupImages(self.images)
      done == GroupsDone(self.target_width, groups, 0)
      rows == self.rows \o
                [g \in 1..done |->
                   AdjustedRow(self.target_width, self.border_size, groups[g])]
  IN  IF done < Len(groups)
      THEN [raised |-> "ZeroDivisionError", rows |-> rows, size |-> <<0, 0>>]
      ELSE [raised |-> "", rows |-> rows,
            size |-> <<self.target_width, FinalHeight(rows, self.border_size, Len(rows))>>]

\* As CalculateLayout, but an empty list of images is not looked for.
CalculateLayoutUnchecked(self) == LayoutOf(self)

\* MosaicLayout.calculate_layout on the object self: what it raises, the rows
\* of the object afterwards and the final dimensions.
CalculateLayout(self) ==
  IF self.images = <<>>
  THEN [raised |-> "ValueError", rows |-> self.rows, size |-> <<0, 0>>]
  ELSE LayoutOf(self)

(* ------------------------------- helpers ------------------------------ *)

\* class Visitor, in the order of its declaration: name and value.
VisitorEnum ==
  << <<"DISCORD", "discordbot">>, <<"SLACK", "slackbot">>, <<"TELEGRAM", "telegrambot">>,
     <<"TWITTER", "twitterbot">>, <<"FACEBOOK", "facebookexternalhit">>,
     <<"GOOGLE", "googlebot">>, <<"BING", "bingbot">>, <<"WHATSAPP", "whatsapp">>,
     <<"LINKEDIN", "linkedinbot">>, <<"UNKNOWN", "unknown">> >>

UpperCase == "ABCDEFGHIJKLMNOPQRSTUVWXYZ"

LowerCase == "abcdefghijklmnopqrstuvwxyz"

\* The lower-case form of one character (the user agents here are ASCII).
LowerChar(c) ==
  IF \E i \in 1..Len(UpperCase) : SubSeq(UpperCase, i, i) = c
  THEN LET i == CHOOSE i \in 1..Len(UpperCase) : SubSeq(UpperCase, i, i) = c
       IN  SubSeq(LowerCase, i, i)
  ELSE c

\* str.lower().
RECURSIVE StrLower(_)
StrLower(s) ==
  IF Len(s) = 0 THEN ""
  ELSE LowerChar(SubSeq(s, 1, 1)) \o StrLower(SubSeq(s, 2, Len(s)))

\* value in text.
StrContains(text, value) ==
  \E i \in 1..(Len(text) - Len(value) + 1) : SubSeq(text, i, i + Len(value) - 1) = value

\* As ScanVisitors, but the last matching Visitor is returned.
RECURSIVE ScanVisitorsLast(_, _)
ScanVisitorsLast(user_agent, i) ==
  IF i > Len(VisitorEnum) THEN "UNKNOWN"
  ELSE LET later == ScanVisitorsLast(user_agent, i + 1)
       IN  IF later # "UNKNOWN" THEN later
           ELSE IF VisitorEnum[i][1] # "UNKNOWN" /\ StrContains(user_agent, VisitorEnum[i][2])
                THEN VisitorEnum[i][1]
                ELSE "UNKNOWN"

\* The loop of identify_visitor from the i-th Visitor on.
RECURSIVE ScanVisitors(_, _)
ScanVisitors(user_agent, i) ==
  IF i > Len(VisitorEnum) THEN "UNKNOWN"
  ELSE IF VisitorEnum[i][1] = "UNKNOWN" THEN ScanVisitors(user_agent, i + 1)
  ELSE IF StrContains(user_agent, VisitorEnum[i][2]) THEN VisitorEnum[i][1]
  ELSE ScanVisitors(user_agent, i + 1)

\* The pieces user agents are made of.
UserAgentParts ==
  {"Mozilla/5.0 (compatible; ", "Discordbot/2.0", "DISCORD", "BOT", "discordBOT",
   "Slackbot-LinkExpanding 1.0", "TelegramBot (like ", "TwitterBot", "TwitterBot/1.0)",
   "Googlebot/2.1", "facebookexternalhit/1.1", "WhatsApp/2.23", "LinkedInBot", "bingbot",
   "discordbo", "t"}

\* The user agents of at most n pieces.
RECURSIVE UserAgentsOf(_)
UserAgentsOf(n) ==
  IF n = 0 THEN {""}
  ELSE LET shorter == UserAgentsOf(n - 1)
       IN  shorter \cup { a \o b : a \in shorter, b \in UserAgentParts }

(* ------------------------------ the state ----------------------------- *)

NoCall == [id |-> 0, op |-> "none", svc |-> "none", args |-> <<>>, before |-> 0]

\* No upsert was committed for the key.
NoWrite == [n |-> 0, id |-> 0, s3_path |-> NULL, prev |-> NULL, before |-> 0, after |-> 0,
            returned |-> FALSE]

NoConn == [open |-> FALSE, fk |-> FALSE, inTxn |-> FALSE, stmt |-> 0,
           grabs |-> {}, medias |-> {}, seq |-> 0]

NoRet == [kind |-> "none", msg |-> "", val |-> <<>>]

NoLast == [id |-> 0, op |-> "none", svc |-> "none", args |-> <<>>, kind |-> "none",
           msg |-> "", overlapped |-> 0]

\* No MosaicLayout object exists.
NoLayout == [target_width |-> 0, images |-> <<>>, border_size |-> 0, rows |-> <<>>]

\* No create_mosaic call was made.
NoMosaic == [place |-> "idle", images |-> <<>>, border_size |-> 0, rows |-> <<>>,
             size |-> <<0, 0>>, canvas |-> <<>>, pasted |-> <<>>, row_index |-> 0,
             img_index |-> 0, x_offset |-> 0, y_offset |-> 0, raised |-> "",
             returned |-> <<>>, logged |-> <<>>]

\* No identify_visitor call was made.
NoVisit == [place |-> "idle", arg |-> "", user_agent |-> "", raised |-> "", returned |-> ""]

\* No create_mosaic call has been observed.
NoEarlier == [seen |-> FALSE, images |-> <<>>, raised |-> "", rows |-> <<>>, size |-> <<0, 0>>]

\* No request is being served.
NoReq == [account_name |-> "", status_id |-> "", visitor |-> "", class |-> "",
          ttl |-> 0, now |-> 0, cached |-> 0, tweet |-> "", outcome |-> "", error |-> "",
          n |-> 0, i |-> 0, upload |-> "", s3_path |-> "", stage |-> "",
          read_failed |-> FALSE]

\* The module-level CacheService of app.py ("s1") is constructed and its
\* database holds the schema and no rows; a second CacheService on the same
\* db_path ("s2") is not constructed yet.
Init ==
  /\ clock = 0
  /\ screengrabs = {}
  /\ medias = {}
  /\ mediaSeq = 0
  /\ schema = FullSchema
  /\ dbLock = NoThread
  /\ svcLock = [s \in Services |-> NoThread]
  /\ constructed = [s \in Services |-> s = "s1"]
  /\ pc = [t \in Threads |-> "idle"]
  /\ call = [t \in Threads |-> NoCall]
  /\ conn = [t \in Threads |-> NoConn]
  /\ ret = [t \in Threads |-> NoRet]
  /\ last = [t \in Threads |-> NoLast]
  /\ writes = [k \in Keys |-> NoWrite]
  /\ mediaLog = <<>>
  /\ calls = 0
  /\ cacheEnabled = TRUE
  /\ hpc = [t \in Threads |-> "none"]
  /\ req = [t \in Threads |-> NoReq]
  /\ hres = [t \in Threads |-> NoRet]
  /\ requests = 0
  /\ layout = NoLayout
  /\ mosaic = NoMosaic
  /\ earlier = NoEarlier
  /\ returns = <<>>
  /\ visit = NoVisit

(* ------------------------- starting a call ---------------------------- *)

\* A thread enters a CacheService method: it is about to enter
\* "with self._get_connection()".
Enter(t, s, op, args) ==
  /\ pc[t] = "idle"
  /\ calls' = calls + 1
  /\ call' = [call EXCEPT ![t] =
       [id |-> calls + 1, op |-> op, svc |-> s, args |-> args,
        before |-> IF op = "add_twitter_screengrab" THEN clock ELSE 0]]
  /\ pc' = [pc EXCEPT ![t] = "acquire"]
  /\ UNCHANGED <<clock, dbVars, dbLock, svcLock, constructed, conn, ret, histVars>>

\* CacheService(db_path): creates the object's own lock and runs _init_db.
Construct(t, s) ==
  /\ ~ constructed[s]
  /\ \A u \in Threads : ~ (pc[u] # "idle" /\ call[u].op = "_init_db" /\ call[u].svc = s)
  /\ Enter(t, s, "_init_db", <<>>)

GetTwitterScreengrabIfExists(t, s, account_name, status_id) ==
  /\ constructed[s]
  /\ Enter(t, s, "get_twitter_screengrab_if_exists", <<account_name, status_id>>)

AddTwitterScreengrab(t, s, account_name, status_id, s3_path) ==
  /\ constructed[s]
  /\ Enter(t, s, "add_twitter_screengrab", <<account_name, status_id, s3_path>>)

AddTwitterScreengrabMedia(t, s, status_id, s3_path, source_url, media_type) ==
  /\ constructed[s]
  /\ Enter(t, s, "add_twitter_screengrab_media",
           <<status_id, s3_path, source_url, media_type>>)

GetTwitterScreengrabMedias(t, s, status_id) ==
  /\ constructed[s]
  /\ Enter(t, s, "get_twitter_screengrab_medias", <<status_id>>)

(* --------------------------- _get_connection -------------------------- *)

\* The body or the context manager raises: the exception is on its way out.
Raised(t, kind, msg) == ret' = [ret EXCEPT ![t] = [kind |-> kind, msg |-> msg, val |-> <<>>]]

\* As AcquireGuard, but the method does not wait for the lock.
AcquireWithoutWaiting(t) == TRUE

\* "with self._connection_lock": blocks until the object's lock is free.
AcquireGuard(t) == svcLock[call[t].svc] = NoThread

Acquire(t) ==
  /\ pc[t] = "acquire"
  /\ AcquireGuard(t)
  /\ svcLock' = [svcLock EXCEPT ![call[t].svc] = t]
  /\ pc' = [pc EXCEPT ![t] = "connect"]
  /\ UNCHANGED <<clock, dbVars, dbLock, constructed, call, conn, ret, histVars, calls, hVars, mosaicVars, visit>>

\* conn = sqlite3.connect(self.db_path): a fresh connection, foreign keys off.
Connect(t) ==
  /\ pc[t] = "connect"
  /\ conn' = [conn EXCEPT ![t] = [NoConn EXCEPT !.open = TRUE, !.stmt = 1]]
  /\ pc' = [pc EXCEPT ![t] = "execute"]
  /\ UNCHANGED <<clock, dbVars, dbLock, svcLock, constructed, call, ret, histVars, calls, hVars, mosaicVars, visit>>

\* As ConnectFail, but the exception leaves the method with the lock held.
ConnectFailHoldingLock(t) ==
  /\ pc[t] = "connect"
  /\ pc' = [pc EXCEPT ![t] = "idle"]
  /\ call' = [call EXCEPT ![t] = NoCall]
  /\ UNCHANGED <<clock, dbVars, dbLock, svcLock, constructed, conn, ret, histVars, calls, hVars, mosaicVars, visit>>

\* sqlite3.connect raises before the try block: there is nothing to close.
ConnectFail(t) ==
  /\ pc[t] = "connect"
  /\ Raised(t, "OperationalError", "unable to open database file")
  /\ pc' = [pc EXCEPT ![t] = "release"]
  /\ UNCHANGED <<clock, dbVars, dbLock, svcLock, constructed, call, conn, histVars, calls, hVars, mosaicVars, visit>>

(* ------------------------ the body of each method -------------------- *)

\* Another connection holds SQLite's write lock: a write statement waits for
\* it and, when the busy timeout runs out, raises "database is locked".
Locked(t) == dbLock \notin {NoThread, t}

\* The exception leaves the with block through the generator's finally.
RaiseInBody(t, kind, msg) ==
  /\ Raised(t, kind, msg)
  /\ pc' = [pc EXCEPT ![t] = "close"]

\* The body returned: the generator resumes after its yield.
ReturnFromBody(t, val) ==
  /\ ret' = [ret EXCEPT ![t] = [kind |-> "ok", msg |-> "", val |-> val]]
  /\ pc' = [pc EXCEPT ![t] = "commit"]

\* As CreateTableIfNotExists, but the table is dropped and created again.
CreateTableAgain(exists, rows) == {}

\* CREATE TABLE IF NOT EXISTS: a table that exists keeps its rows, a new one
\* has none.
CreateTableIfNotExists(exists, rows) == IF exists THEN rows ELSE {}

\* One statement of _init_db.  The PRAGMA turns foreign keys on for this
\* connection only.  CREATE ... IF NOT EXISTS does nothing when the object
\* exists; otherwise it runs in autocommit mode and writes the schema.
ExecInitDb(t) ==
  /\ pc[t] = "execute"
  /\ call[t].op = "_init_db"
  /\ LET i == conn[t].stmt
         name == InitStatements[i]
         next == IF i = Len(InitStatements)
                 THEN ReturnFromBody(t, <<>>)
                 ELSE UNCHANGED <<pc, ret>>
         created == /\ screengrabs' =
                         IF name = "twitter_screengrabs"
                         THEN CreateTableIfNotExists(name \in schema, screengrabs)
                         ELSE screengrabs
                    /\ medias' =
                         IF name = "twitter_screengrab_medias"
                         THEN CreateTableIfNotExists(name \in schema, medias)
                         ELSE medias
     IN  IF i = 1
         THEN /\ conn' = [conn EXCEPT ![t].fk = TRUE, ![t].stmt = i + 1]
              /\ UNCHANGED <<pc, ret, schema, screengrabs, medias>>
         ELSE IF name \in schema
         THEN /\ conn' = [conn EXCEPT ![t].stmt = i + 1]
              /\ schema' = schema
              /\ created
              /\ next
         ELSE IF Locked(t)
         THEN /\ RaiseInBody(t, "OperationalError", "database is locked")
              /\ UNCHANGED <<conn, schema, screengrabs, medias>>
         ELSE /\ conn' = [conn EXCEPT ![t].stmt = i + 1]
              /\ schema' = schema \cup {name}
              /\ created
              /\ next
  /\ UNCHANGED <<clock, mediaSeq, dbLock, svcLock, constructed, call, histVars, calls, hVars, mosaicVars, visit>>

\* The body of get_twitter_screengrab_if_exists: a SELECT reads the committed
\* rows.
ExecGetTwitterScreengrabIfExists(t) ==
  /\ pc[t] = "execute"
  /\ call[t].op = "get_twitter_screengrab_if_exists"
  /\ IF "twitter_screengrabs" \notin schema
     THEN RaiseInBody(t, "OperationalError", "no such table")
     ELSE ReturnFromBody(t, GetIfExists(screengrabs, call[t].args[1], call[t].args[2]))
  /\ UNCHANGED <<clock, dbVars, dbLock, svcLock, constructed, call, conn, histVars, calls, hVars, mosaicVars, visit>>

\* As MediasAfterReplace, but the write clears the media rows of its status
\* id.
MediasAfterReplaceClearing(grabs, rows, row) ==
  { r \in rows : r.status_id # row.status_id }

\* The media rows after INSERT OR REPLACE INTO twitter_screengrabs: the
\* foreign key of twitter_screengrab_medias names no ON DELETE action and
\* this connection does not enforce foreign keys, so they stay.
MediasAfterReplace(grabs, rows, row) == rows

\* The row add_twitter_screengrab binds.
ScreengrabRow(args, now) ==
  [account_name |-> args[1], status_id |-> args[2],
   cached_at |-> AdaptDatetime(UtcNow(now)), s3_path |-> args[3]]

\* The body of add_twitter_screengrab: the INSERT opens a transaction, takes
\* SQLite's write lock and changes this connection's view of the table.
ExecAddTwitterScreengrab(t) ==
  /\ pc[t] = "execute"
  /\ call[t].op = "add_twitter_screengrab"
  /\ LET row == ScreengrabRow(call[t].args, clock)
     IN  IF "twitter_screengrabs" \notin schema
         THEN /\ RaiseInBody(t, "OperationalError", "no such table")
              /\ UNCHANGED <<conn, dbLock>>
         ELSE IF Locked(t)
         THEN /\ RaiseInBody(t, "OperationalError", "database is locked")
              /\ conn' = [conn EXCEPT ![t].inTxn = TRUE]
              /\ UNCHANGED dbLock
         ELSE IF ~ ScreengrabNotNull(row)
         THEN /\ RaiseInBody(t, "IntegrityError", "NOT NULL constraint failed")
              /\ conn' = [conn EXCEPT ![t].inTxn = TRUE]
              /\ dbLock' = t
         ELSE /\ ReturnFromBody(t, <<>>)
              /\ conn' = [conn EXCEPT ![t].inTxn = TRUE,
                                      ![t].grabs = InsertOrReplaceScreengrab(screengrabs, row),
                                      ![t].medias = MediasAfterReplace(screengrabs, medias, row),
                                      ![t].seq = mediaSeq]
              /\ dbLock' = t
  /\ UNCHANGED <<clock, dbVars, svcLock, constructed, call, histVars, calls, hVars, mosaicVars, visit>>

\* The values add_twitter_screengrab_media binds.
MediaVals(args, now) ==
  [status_id |-> args[1], s3_path |-> args[2], source_url |-> args[3],
   media_type |-> args[4], cached_at |-> AdaptDatetime(UtcNow(now))]

\* The body of add_twitter_screengrab_media.  The foreign key of the table is
\* enforced only on a connection that ran the PRAGMA, and its parent column
\* is not a key of twitter_screengrabs.
ExecAddTwitterScreengrabMedia(t) ==
  /\ pc[t] = "execute"
  /\ call[t].op = "add_twitter_screengrab_media"
  /\ LET vals == MediaVals(call[t].args, clock)
     IN  IF "twitter_screengrab_medias" \notin schema
         THEN /\ RaiseInBody(t, "OperationalError", "no such table")
              /\ UNCHANGED <<conn, dbLock>>
         ELSE IF conn[t].fk
         THEN /\ RaiseInBody(t, "OperationalError", "foreign key mismatch")
              /\ UNCHANGED <<conn, dbLock>>
         ELSE IF Locked(t)
         THEN /\ RaiseInBody(t, "OperationalError", "database is locked")
              /\ conn' = [conn EXCEPT ![t].inTxn = TRUE]
              /\ UNCHANGED dbLock
         ELSE IF ~ MediaNotNull(vals)
         THEN /\ RaiseInBody(t, "IntegrityError", "NOT NULL constraint failed")
              /\ conn' = [conn EXCEPT ![t].inTxn = TRUE]
              /\ dbLock' = t
         ELSE /\ ReturnFromBody(t, <<>>)
              /\ conn' = [conn EXCEPT ![t].inTxn = TRUE,
                                      ![t].grabs = screengrabs,
                                      ![t].medias = InsertMedia(medias, mediaSeq, vals),
                                      ![t].seq = NextMediaId(medias, mediaSeq)]
              /\ dbLock' = t
  /\ UNCHANGED <<clock, dbVars, svcLock, constructed, call, histVars, calls, hVars, mosaicVars, visit>>

\* The body of get_twitter_screengrab_medias.
ExecGetTwitterScreengrabMedias(t) ==
  /\ pc[t] = "execute"
  /\ call[t].op = "get_twitter_screengrab_medias"
  /\ IF "twitter_screengrab_medias" \notin schema
     THEN RaiseInBody(t, "OperationalError", "no such table")
     ELSE ReturnFromBody(t, GetMedias(medias, call[t].args[1]))
  /\ UNCHANGED <<clock, dbVars, dbLock, svcLock, constructed, call, conn, histVars, calls, hVars, mosaicVars, visit>>

\* A statement fails on the storage itself.
ExecFail(t) ==
  /\ pc[t] = "execute"
  /\ RaiseInBody(t, "OperationalError", "disk I/O error")
  /\ UNCHANGED <<clock, dbVars, dbLock, svcLock, constructed, call, conn, histVars, calls, hVars, mosaicVars, visit>>

(* --------------------- commit, close and release ---------------------- *)

\* The key a committed upsert wrote.
KeyOf(args) == <<args[1], args[2]>>

\* conn.commit() after the body returned: the transaction's view of the
\* tables becomes the committed one and SQLite's write lock is given up.
\* Without an open transaction there is nothing to commit.
Commit(t) ==
  /\ pc[t] = "commit"
  /\ IF conn[t].inTxn
     THEN /\ screengrabs' = conn[t].grabs
          /\ medias' = conn[t].medias
          /\ mediaSeq' = conn[t].seq
          /\ dbLock' = NoThread
          /\ conn' = [conn EXCEPT ![t].inTxn = FALSE]
          /\ writes' =
               IF call[t].op = "add_twitter_screengrab"
               THEN [writes EXCEPT ![KeyOf(call[t].args)] =
                       [n |-> @.n + 1, id |-> call[t].id, s3_path |-> call[t].args[3],
                        prev |-> @.s3_path, before |-> call[t].before, after |-> 0,
                        returned |-> FALSE]]
               ELSE writes
          /\ mediaLog' =
               IF call[t].op = "add_twitter_screengrab_media"
               THEN Append(mediaLog, call[t].args)
               ELSE mediaLog
     ELSE UNCHANGED <<screengrabs, medias, mediaSeq, dbLock, conn, writes, mediaLog>>
  /\ pc' = [pc EXCEPT ![t] = "close"]
  /\ UNCHANGED <<clock, schema, svcLock, constructed, call, ret, last, calls, hVars, mosaicVars, visit>>

\* conn.commit() raises: the transaction stays open until the connection is
\* closed.
CommitFail(t) ==
  /\ pc[t] = "commit"
  /\ conn[t].inTxn
  /\ Raised(t, "OperationalError", "database or disk is full")
  /\ pc' = [pc EXCEPT ![t] = "close"]
  /\ UNCHANGED <<clock, dbVars, dbLock, svcLock, constructed, call, conn, histVars, calls, hVars, mosaicVars, visit>>

\* As Close, but closing the connection commits the open transaction.
CloseCommitting(t) ==
  /\ pc[t] = "close"
  /\ conn' = [conn EXCEPT ![t] = NoConn]
  /\ dbLock' = IF dbLock = t THEN NoThread ELSE dbLock
  /\ pc' = [pc EXCEPT ![t] = "release"]
  /\ IF conn[t].inTxn /\ dbLock = t
     THEN /\ screengrabs' = conn[t].grabs
          /\ medias' = conn[t].medias
          /\ mediaSeq' = conn[t].seq
     ELSE UNCHANGED <<screengrabs, medias, mediaSeq>>
  /\ UNCHANGED <<clock, schema, svcLock, constructed, call, ret, histVars, calls, hVars, mosaicVars, visit>>

\* finally: conn.close().  An open transaction is rolled back and its lock
\* given up.
Close(t) ==
  /\ pc[t] = "close"
  /\ conn' = [conn EXCEPT ![t] = NoConn]
  /\ dbLock' = IF dbLock = t THEN NoThread ELSE dbLock
  /\ pc' = [pc EXCEPT ![t] = "release"]
  /\ UNCHANGED <<clock, dbVars, svcLock, constructed, call, ret, histVars, calls, hVars, mosaicVars, visit>>

\* An upsert another thread has in flight on the same CacheService (0: none).
InFlightUpsert(t) ==
  LET others == { u \in Threads \ {t} :
                    /\ pc[u] # "idle"
                    /\ call[u].op = "add_twitter_screengrab"
                    /\ call[u].svc = call[t].svc }
  IN  IF others = {} THEN 0 ELSE call[CHOOSE u \in others : TRUE].id

\* The with block of _connection_lock is left: the lock is released and the
\* method returns or raises to its caller.
Release(t) ==
  /\ pc[t] = "release"
  /\ svcLock' = [svcLock EXCEPT ![call[t].svc] = NoThread]
  /\ constructed' =
       IF call[t].op = "_init_db" /\ ret[t].kind = "ok"
       THEN [constructed EXCEPT ![call[t].svc] = TRUE]
       ELSE constructed
  /\ last' = [last EXCEPT ![t] =
       [id |-> call[t].id, op |-> call[t].op, svc |-> call[t].svc, args |-> call[t].args,
        kind |-> ret[t].kind, msg |-> ret[t].msg, overlapped |-> InFlightUpsert(t)]]
  /\ writes' =
       [k \in Keys |->
          IF writes[k].id = call[t].id /\ ~ writes[k].returned
          THEN [writes[k] EXCEPT !.after = clock, !.returned = TRUE]
          ELSE writes[k]]
  /\ pc' = [pc EXCEPT ![t] = "idle"]
  /\ call' = [call EXCEPT ![t] = NoCall]
  /\ ret' = [ret EXCEPT ![t] = NoRet]
  /\ hres' = IF hpc[t] = "none" THEN hres ELSE [hres EXCEPT ![t] = ret[t]]
  /\ UNCHANGED <<clock, dbVars, dbLock, conn, mediaLog, calls, cacheEnabled, mosaicVars, visit, hpc, req,
                 requests>>

\* The wall clock moves on, to a later instant of the minutes 0..n.
TickWithin(n) ==
  /\ \E i \in InstantsUpTo(n) : i > clock /\ clock' = i
  /\ UNCHANGED <<dbVars, dbLock, svcLock, constructed, pc, call, conn, ret, histVars, calls,
                 hVars, mosaicVars, visit>>

Tick == TickWithin(MaxMinutes)

(* --------------------------- the specification ------------------------ *)

\* The CacheService objects a thread calls: both threads share "s1", and
\* "t2" may also build and use a second object on the same file.
ServicesOf(t) == IF t = "t1" THEN {"s1"} ELSE Services

\* A thread that calls the CacheService directly may start another call.
ApiCall(t) ==
  /\ pc[t] = "idle"
  /\ hpc[t] = "none"
  /\ calls < MaxCalls
  /\ UNCHANGED <<hVars, mosaicVars, visit>>

\* The calls that leave one required argument out.
NullUpserts == {<<NULL, "100", "p1">>, <<"alice", NULL, "p1">>, <<"alice", "100", NULL>>}

NullMedias ==
  {<<NULL, "p1", "u1", "image">>, <<"100", NULL, "u1", "image">>,
   <<"100", "p1", NULL, "image">>, <<"100", "p1", "u1", NULL>>}

Next ==
  \/ Tick
  \/ \E t \in Threads : \E s \in ServicesOf(t) : ApiCall(t) /\ Construct(t, s)
  \/ \E t \in Threads : \E s \in ServicesOf(t), k \in Keys :
       ApiCall(t) /\ GetTwitterScreengrabIfExists(t, s, k[1], k[2])
  \/ \E t \in Threads : \E s \in ServicesOf(t), k \in Keys, p \in Paths :
       ApiCall(t) /\ AddTwitterScreengrab(t, s, k[1], k[2], p)
  \/ \E t \in Threads : \E s \in ServicesOf(t), a \in NullUpserts :
       ApiCall(t) /\ AddTwitterScreengrab(t, s, a[1], a[2], a[3])
  \/ \E t \in Threads : \E s \in ServicesOf(t), i \in Statuses, p \in Paths,
        u \in Urls, m \in MediaTypes :
       ApiCall(t) /\ AddTwitterScreengrabMedia(t, s, i, p, u, m)
  \/ \E t \in Threads : \E s \in ServicesOf(t), a \in NullMedias :
       ApiCall(t) /\ AddTwitterScreengrabMedia(t, s, a[1], a[2], a[3], a[4])
  \/ \E t \in Threads : \E s \in ServicesOf(t), i \in Statuses :
       ApiCall(t) /\ GetTwitterScreengrabMedias(t, s, i)
  \/ \E t \in Threads : Acquire(t)
  \/ \E t \in Threads : Connect(t)
  \/ \E t \in Threads : ConnectFail(t)
  \/ \E t \in Threads : ExecInitDb(t)
  \/ \E t \in Threads : ExecGetTwitterScreengrabIfExists(t)
  \/ \E t \in Threads : ExecAddTwitterScreengrab(t)
  \/ \E t \in Threads : ExecAddTwitterScreengrabMedia(t)
  \/ \E t \in Threads : ExecGetTwitterScreengrabMedias(t)
  \/ \E t \in Threads : ExecFail(t)
  \/ \E t \in Threads : Commit(t)
  \/ \E t \in Threads : CommitFail(t)
  \/ \E t \in Threads : Close(t)
  \/ \E t \in Threads : Release(t)

Spec == Init /\ [][Next]_vars

\* The calls of one post, by either thread on either CacheService, with every
\* step fair: a thread that can take a step of its call takes one, and a
\* thread that waits for a lock that is free again and again gets it.
NextLive ==
  \/ \E t \in Threads : \E s \in ServicesOf(t) : ApiCall(t) /\ Construct(t, s)
  \/ \E t \in Threads : \E s \in ServicesOf(t) :
       ApiCall(t) /\ GetTwitterScreengrabIfExists(t, s, "alice", "100")
  \/ \E t \in Threads : \E s \in ServicesOf(t) :
       ApiCall(t) /\ AddTwitterScreengrab(t, s, "alice", "100", "p1")
  \/ \E t \in Threads : \E s \in ServicesOf(t) :
       ApiCall(t) /\ AddTwitterScreengrabMedia(t, s, "100", "p1", "u1", "image")
  \/ \E t \in Threads : \E s \in ServicesOf(t) :
       ApiCall(t) /\ GetTwitterScreengrabMedias(t, s, "100")
  \/ \E t \in Threads : Acquire(t)
  \/ \E t \in Threads : Connect(t)
  \/ \E t \in Threads : ConnectFail(t)
  \/ \E t \in Threads : ExecInitDb(t)
  \/ \E t \in Threads : ExecGetTwitterScreengrabIfExists(t)
  \/ \E t \in Threads : ExecAddTwitterScreengrab(t)
  \/ \E t \in Threads : ExecAddTwitterScreengrabMedia(t)
  \/ \E t \in Threads : ExecGetTwitterScreengrabMedias(t)
  \/ \E t \in Threads : ExecFail(t)
  \/ \E t \in Threads : Commit(t)
  \/ \E t \in Threads : CommitFail(t)
  \/ \E t \in Threads : Close(t)
  \/ \E t \in Threads : Release(t)

\* The steps of a call that holds the lock, failures included.
Proceed(t) ==
  \/ Connect(t) \/ ConnectFail(t)
  \/ ExecInitDb(t) \/ ExecGetTwitterScreengrabIfExists(t) \/ ExecAddTwitterScreengrab(t)
  \/ ExecAddTwitterScreengrabMedia(t) \/ ExecGetTwitterScreengrabMedias(t) \/ ExecFail(t)
  \/ Commit(t) \/ CommitFail(t)
  \/ Close(t)
  \/ Release(t)

FairScheduling == \A t \in Threads : SF_vars(Acquire(t)) /\ WF_vars(Proceed(t))

SpecLive == Init /\ [][NextLive]_vars /\ FairScheduling

\* The file at db_path does not exist yet and no CacheService was constructed:
\* sqlite3.connect creates an empty database.
InitFresh ==
  /\ clock = 0
  /\ screengrabs = {}
  /\ medias = {}
  /\ mediaSeq = 0
  /\ schema = {}
  /\ dbLock = NoThread
  /\ svcLock = [s \in Services |-> NoThread]
  /\ constructed = [s \in Services |-> FALSE]
  /\ pc = [t \in Threads |-> "idle"]
  /\ call = [t \in Threads |-> NoCall]
  /\ conn = [t \in Threads |-> NoConn]
  /\ ret = [t \in Threads |-> NoRet]
  /\ last = [t \in Threads |-> NoLast]
  /\ writes = [k \in Keys |-> NoWrite]
  /\ mediaLog = <<>>
  /\ calls = 0
  /\ cacheEnabled = TRUE
  /\ hpc = [t \in Threads |-> "none"]
  /\ req = [t \in Threads |-> NoReq]
  /\ hres = [t \in Threads |-> NoRet]
  /\ requests = 0
  /\ layout = NoLayout
  /\ mosaic = NoMosaic
  /\ earlier = NoEarlier
  /\ returns = <<>>
  /\ visit = NoVisit

\* A thread may construct a CacheService or call one.
ConstructorCall(t) ==
  /\ pc[t] = "idle"
  /\ hpc[t] = "none"
  /\ calls < MaxConstructCalls
  /\ UNCHANGED <<hVars, mosaicVars, visit>>

\* Either thread constructs CacheService objects on the same db_path, a failed
\* construction is attempted again, and "t1" stores the screengrab and the
\* media of one post through the objects that exist.
NextConstruct ==
  \/ \E t \in Threads, s \in Services : ConstructorCall(t) /\ Construct(t, s)
  \/ \E s \in Services :
       ConstructorCall("t1") /\ AddTwitterScreengrab("t1", s, "alice", "100", "p1")
  \/ \E s \in Services :
       ConstructorCall("t1") /\ AddTwitterScreengrabMedia("t1", s, "100", "p1", "u1", "image")
  \/ \E t \in Threads : Acquire(t)
  \/ \E t \in Threads : Connect(t)
  \/ \E t \in Threads : ConnectFail(t)
  \/ \E t \in Threads : ExecInitDb(t)
  \/ \E t \in Threads : ExecAddTwitterScreengrab(t)
  \/ \E t \in Threads : ExecAddTwitterScreengrabMedia(t)
  \/ \E t \in Threads : ExecFail(t)
  \/ \E t \in Threads : Commit(t)
  \/ \E t \in Threads : CommitFail(t)
  \/ \E t \in Threads : Close(t)
  \/ \E t \in Threads : Release(t)

SpecConstruct == InitFresh /\ [][NextConstruct]_vars

(* ------------------------------ MosaicService ------------------------- *)

\* The variables of the CacheService and of the request handler.
serviceVars ==
  <<clock, dbVars, dbLock, svcLock, constructed, pc, call, conn, ret, histVars, calls, hVars,
    visit>>

\* The lists of at most n images.
ImageLists(n) == UNION { [1..k -> ImageSizes] : k \in 0..n }

\* The variables that record what the layout calls gave.
mosaicHistVars == <<earlier, returns>>

\* MosaicLayout(target_width, images, border_size).
NewMosaicLayout(target_width, images, border_size) ==
  [target_width |-> target_width, images |-> images, border_size |-> border_size,
   rows |-> <<>>]

\* As MosaicLayoutFor, but the service keeps one MosaicLayout and gives it
\* the images of the call.
SharedMosaicLayout(images) ==
  [layout EXCEPT !.target_width = DefaultWidth, !.images = images,
                 !.border_size = DefaultBorderSize]

\* The MosaicLayout of a create_mosaic call: a new object.
MosaicLayoutFor(images) == NewMosaicLayout(DefaultWidth, images, DefaultBorderSize)

\* create_mosaic(images): a MosaicLayout is made for the images, the default
\* width and the default border.
CreateMosaic(images) ==
  /\ mosaic.place \in {"idle", "done"}
  /\ layout' = MosaicLayoutFor(images)
  /\ mosaic' = [NoMosaic EXCEPT !.place = "layout", !.images = images,
                                !.border_size = DefaultBorderSize]
  /\ UNCHANGED <<serviceVars, mosaicHistVars>>

\* "except Exception" of create_mosaic: the error is logged and raised again;
\* the canvas, a local, is gone.
RaiseFromCreateMosaic(m, exception) ==
  [m EXCEPT !.place = "done", !.raised = exception, !.canvas = <<>>,
            !.logged = Append(@, "Error creating mosaic")]

\* rows, (mosaic_width, mosaic_height) = layout.calculate_layout().
Layout ==
  /\ mosaic.place = "layout"
  /\ LET r == CalculateLayout(layout)
     IN  /\ layout' = [layout EXCEPT !.rows = r.rows]
         /\ mosaic' = IF r.raised # ""
                      THEN RaiseFromCreateMosaic(mosaic, r.raised)
                      ELSE [mosaic EXCEPT !.place = "canvas", !.rows = r.rows,
                                          !.size = r.size]
  /\ UNCHANGED <<serviceVars, mosaicHistVars>>

\* PILImage.new("RGB", (mosaic_width, mosaic_height), "white"), y_offset = 0,
\* and the first row (rows and images are counted from 1 here).
NewCanvas ==
  /\ mosaic.place = "canvas"
  /\ mosaic' = [mosaic EXCEPT !.place = IF mosaic.rows = <<>> THEN "save" ELSE "paste",
                              !.canvas = <<mosaic.size>>,
                              !.row_index = 1, !.img_index = 1,
                              !.x_offset = 0, !.y_offset = 0]
  /\ UNCHANGED <<layout, serviceVars, mosaicHistVars>>

\* As NextImage, but the next row starts right under the row before it.
NextImageRowsTouching(m, img_width) ==
  LET row == m.rows[m.row_index]
      row_height == RowHeight(row, Len(row))
      lastImage == m.img_index = Len(row)
      lastRow == m.row_index = Len(m.rows)
  IN  [m EXCEPT
         !.x_offset = IF ~ lastImage THEN m.x_offset + img_width + m.border_size
                      ELSE IF lastRow THEN m.x_offset + img_width
                      ELSE 0,
         !.y_offset = IF ~ lastImage THEN m.y_offset ELSE m.y_offset + row_height,
         !.img_index = IF lastImage THEN 1 ELSE m.img_index + 1,
         !.row_index = IF lastImage THEN m.row_index + 1 ELSE m.row_index,
         !.place = IF lastImage /\ lastRow THEN "save" ELSE "paste"]

\* The offsets and indexes after the image at img_index, of width img_width:
\* the next image of the row, or the first of the next row, or the end.
NextImage(m, img_width) ==
  LET row == m.rows[m.row_index]
      row_height == RowHeight(row, Len(row))
      lastImage == m.img_index = Len(row)
      lastRow == m.row_index = Len(m.rows)
  IN  [m EXCEPT
         !.x_offset = IF ~ lastImage THEN m.x_offset + img_width + m.border_size
                      ELSE IF lastRow THEN m.x_offset + img_width
                      ELSE 0,
         !.y_offset = IF ~ lastImage THEN m.y_offset
                      ELSE IF lastRow THEN m.y_offset + row_height
                      ELSE m.y_offset + row_height + m.border_size,
         !.img_index = IF lastImage THEN 1 ELSE m.img_index + 1,
         !.row_index = IF lastImage THEN m.row_index + 1 ELSE m.row_index,
         !.place = IF lastImage /\ lastRow THEN "save" ELSE "paste"]

\* As PasteFailed, but the error is logged and the image is left out.
PasteFailedSkipping(m) ==
  NextImage([m EXCEPT !.logged = Append(@, "Error processing image in mosaic")], 0)

\* to_pil_image or resize raises: the inner except logs the error and raises
\* it again, into the except of create_mosaic.
PasteFailed(m) ==
  RaiseFromCreateMosaic(
    [m EXCEPT !.logged = Append(@, "Error processing image in mosaic")],
    "UnidentifiedImageError")

\* One image is opened, resized to its computed size and pasted, centred in
\* the height of its row.
Paste(ok) ==
  /\ mosaic.place = "paste"
  /\ LET row == mosaic.rows[mosaic.row_index]
         dims == row[mosaic.img_index][2]
         row_height == RowHeight(row, Len(row))
         y_center_offset == (row_height - dims[2]) \div 2
     IN  mosaic' =
           IF ~ ok THEN PasteFailed(mosaic)
           ELSE NextImage(
                  [mosaic EXCEPT !.pasted =
                     Append(@, [x |-> mosaic.x_offset, y |-> mosaic.y_offset + y_center_offset,
                                width |-> dims[1], height |-> dims[2]])],
                  dims[1])
  /\ UNCHANGED <<layout, serviceVars, mosaicHistVars>>

\* mosaic.save(output, format="PNG"); return output.getvalue().
Save ==
  /\ mosaic.place = "save"
  /\ mosaic' = [mosaic EXCEPT !.place = "done",
                              !.returned = <<[size |-> mosaic.canvas[1],
                                              pasted |-> mosaic.pasted]>>]
  /\ UNCHANGED <<layout, serviceVars, mosaicHistVars>>

NextMosaic ==
  \/ \E images \in ImageLists(MaxImages) : CreateMosaic(images)
  \/ Layout
  \/ NewCanvas
  \/ \E ok \in BOOLEAN : Paste(ok)
  \/ Save

SpecMosaic == Init /\ [][NextMosaic]_vars

\* The outcome of the create_mosaic call that has ended is kept, once, to
\* compare later calls with.
Observe ==
  /\ mosaic.place = "done"
  /\ ~ earlier.seen
  /\ earlier' = [seen |-> TRUE, images |-> mosaic.images, raised |-> mosaic.raised,
                 rows |-> mosaic.rows, size |-> mosaic.size]
  /\ UNCHANGED <<layout, mosaic, returns, serviceVars>>

\* create_mosaic called again and again, one call at a time, with lists of
\* at most MaxRepeatImages images.
NextRepeat ==
  \/ \E images \in ImageLists(MaxRepeatImages) : CreateMosaic(images)
  \/ Layout
  \/ NewCanvas
  \/ \E ok \in BOOLEAN : Paste(ok)
  \/ Save
  \/ Observe

SpecRepeat == Init /\ [][NextRepeat]_vars

\* layout = MosaicLayout(1200, images, 10), by a caller of its own.
NewLayout(images) ==
  /\ layout' = NewMosaicLayout(DefaultWidth, images, DefaultBorderSize)
  /\ returns' = <<>>
  /\ UNCHANGED <<mosaic, earlier, serviceVars>>

\* layout.calculate_layout(), on the object the caller holds.
CalculateLayoutCall ==
  /\ layout # NoLayout
  /\ Len(returns) < MaxLayoutCalls
  /\ LET r == CalculateLayout(layout)
     IN  /\ layout' = [layout EXCEPT !.rows = r.rows]
         /\ returns' = Append(returns, r)
  /\ UNCHANGED <<mosaic, earlier, serviceVars>>

NextLayout ==
  \/ \E images \in ImageLists(MaxImages) : NewLayout(images)
  \/ CalculateLayoutCall

SpecLayout == Init /\ [][NextLayout]_vars

(* --------------------------- identify_visitor ------------------------- *)

\* Everything but the identify_visitor call.
notVisitVars ==
  <<clock, dbVars, dbLock, svcLock, constructed, pc, call, conn, ret, histVars, calls, hVars,
    mosaicVars>>

\* identify_visitor(user_agent); NULL is the user agent None.
IdentifyVisitor(user_agent) ==
  /\ visit.place \in {"idle", "done"}
  /\ visit' = [NoVisit EXCEPT !.place = "lower", !.arg = user_agent,
                               !.user_agent = user_agent]
  /\ UNCHANGED notVisitVars

\* user_agent = user_agent.lower(): None has no attribute lower.
LowerUserAgent ==
  /\ visit.place = "lower"
  /\ visit' = IF visit.user_agent = NULL
              THEN [visit EXCEPT !.place = "done", !.raised = "AttributeError"]
              ELSE [visit EXCEPT !.place = "scan", !.user_agent = StrLower(@)]
  /\ UNCHANGED notVisitVars

\* The loop over Visitor and the return.
ReturnVisitor ==
  /\ visit.place = "scan"
  /\ visit' = [visit EXCEPT !.place = "done", !.returned = ScanVisitors(visit.user_agent, 1)]
  /\ UNCHANGED notVisitVars

NextVisitor ==
  \/ \E user_agent \in UserAgentsOf(MaxParts) \cup {NULL} : IdentifyVisitor(user_agent)
  \/ LowerUserAgent
  \/ ReturnVisitor

SpecVisitor == Init /\ [][NextVisitor]_vars

(* ------------------------- CacheService: claims ----------------------- *)

\* The instant of the text SQLite stores for a datetime.
StoredInstant(text) == text[1] * USec + (IF Len(text) >= 2 THEN text[2] ELSE 0)

\* A call is between taking and giving up the lock of its CacheService.
InCritical(t) == pc[t] \in {"connect", "execute", "commit", "close", "release"}

HasNull(args) == \E i \in 1..Len(args) : args[i] = NULL

IsError(r) == r.kind \in {"IntegrityError", "OperationalError"}

RowsUnchanged == screengrabs' = screengrabs /\ medias' = medias /\ mediaSeq' = mediaSeq

\* C1: once an upsert of key (account_name, status_id) with locator L is
\* committed, and until another upsert of the key is, the lookup of the key
\* yields one record with that account_name, status_id and L, whose cached_at
\* is an aware UTC datetime not before the instant the upsert was called and
\* not after the instant it returned; this holds for a first write and for an
\* overwrite.
UpsertThenLookup ==
  \A k \in Keys :
    writes[k].n > 0 =>
      LET got == GetIfExists(screengrabs, k[1], k[2])
      IN  /\ Len(got) = 1
          /\ got[1].account_name = k[1]
          /\ got[1].status_id = k[2]
          /\ got[1].s3_path = writes[k].s3_path
          /\ got[1].cached_at.tz = "utc"
          /\ writes[k].before <= InstantOf(got[1].cached_at)
          /\ writes[k].returned => InstantOf(got[1].cached_at) <= writes[k].after

\* A lookup that follows a returned upsert of its key has fetched the record,
\* written at an instant with a fraction of a second.
UpsertThenLookupSeen ==
  \E t \in Threads, k \in Keys :
    /\ pc[t] = "commit"
    /\ call[t].op = "get_twitter_screengrab_if_exists"
    /\ KeyOf(call[t].args) = k
    /\ writes[k].returned
    /\ Len(ret[t].val) = 1
    /\ ret[t].val[1].s3_path = writes[k].s3_path
    /\ ret[t].val[1].cached_at.us # 0
    /\ writes[k].before = InstantOf(ret[t].val[1].cached_at)

\* C2: the table holds at most one row per key, none for a key never
\* upserted, and the row of an upserted key carries the locator of the last
\* upsert committed for it.
OneRecordPerKey ==
  /\ \A r \in screengrabs : <<r.account_name, r.status_id>> \in Keys
  /\ \A k \in Keys :
       LET rows == { r \in screengrabs : r.account_name = k[1] /\ r.status_id = k[2] }
       IN  /\ Cardinality(rows) <= 1
           /\ writes[k].n = 0 => rows = {}
           /\ writes[k].n > 0 => \E r \in rows : r.s3_path = writes[k].s3_path

\* A key was upserted twice, with two different locators.
UpsertedTwice ==
  \E k \in Keys :
    /\ writes[k].n = 2
    /\ writes[k].prev # writes[k].s3_path
    /\ \E r \in screengrabs :
         r.account_name = k[1] /\ r.status_id = k[2] /\ r.s3_path = writes[k].s3_path

\* Two threads upserted two different keys through the same CacheService, and
\* the call of t returned while the call of u was in flight.
ConcurrentUpserts(t, u) ==
  /\ t # u
  /\ last[t].op = "add_twitter_screengrab"
  /\ last[u].op = "add_twitter_screengrab"
  /\ last[t].overlapped = last[u].id
  /\ ~ HasNull(last[t].args)
  /\ ~ HasNull(last[u].args)
  /\ KeyOf(last[t].args) # KeyOf(last[u].args)

\* C3: of two upserts of different keys that ran concurrently through one
\* CacheService, neither fails on the other ("database is locked"), and each
\* one that returned normally is retrievable with the locator its caller
\* wrote, as long as no later upsert of its key was committed.
ConcurrentUpsertsKept ==
  \A t, u \in Threads :
    ConcurrentUpserts(t, u) =>
      \A w \in {t, u} :
        /\ last[w].msg # "database is locked"
        /\ (last[w].kind = "ok" /\ writes[KeyOf(last[w].args)].id = last[w].id) =>
             LET got == GetIfExists(screengrabs, last[w].args[1], last[w].args[2])
             IN  Len(got) = 1 /\ got[1].s3_path = last[w].args[3]

\* Two concurrent upserts of different keys both returned normally.
ConcurrentUpsertsDone ==
  \E t, u \in Threads :
    /\ ConcurrentUpserts(t, u)
    /\ last[t].kind = "ok"
    /\ last[u].kind = "ok"

\* C4: for each CacheService, the calls between acquire and release are the
\* one call of the thread that holds its lock, and a connection is open only
\* inside that section.
MutualExclusionPerStore ==
  /\ \A t, u \in Threads :
       (t # u /\ InCritical(t) /\ InCritical(u)) => call[t].svc # call[u].svc
  /\ \A t \in Threads : InCritical(t) => svcLock[call[t].svc] = t
  /\ \A t \in Threads : conn[t].open => InCritical(t)

\* A thread waits for the lock of a CacheService while another thread's
\* connection of that CacheService is open.
WaitingForStore ==
  \E t, u \in Threads :
    /\ t # u
    /\ conn[t].open
    /\ pc[u] = "acquire"
    /\ call[u].svc = call[t].svc

\* C5: at most one storage operation is in flight in the whole process,
\* whichever CacheService objects the callers use.
ProcessWideMutualExclusion ==
  Cardinality({ t \in Threads : InCritical(t) }) <= 1

\* No lock and no connection outlives the call that took it.
NothingLeaked ==
  /\ \A s \in Services :
       svcLock[s] # NoThread => InCritical(svcLock[s]) /\ call[svcLock[s]].svc = s
  /\ \A t \in Threads : conn[t].open => pc[t] \in {"execute", "commit", "close"}
  /\ dbLock # NoThread => conn[dbLock].open

\* A step of a call that has raised or raises in this step.
FailingStep(t) ==
  /\ pc'[t] # pc[t]
  /\ IsError(ret[t]) \/ IsError(ret'[t])

\* C6: a call that fails while connecting, executing or committing leaves
\* the stored rows as they were in every one of its steps, and returns to its
\* caller with the error it raised, its connection closed, SQLite's write lock
\* given up and the lock of its CacheService free; no lock or connection is
\* ever left behind.
ExitPathsClean ==
  /\ []NothingLeaked
  /\ [][\A t \in Threads :
          FailingStep(t) =>
            /\ RowsUnchanged
            /\ pc'[t] = "idle" =>
                 /\ last'[t].kind = ret[t].kind
                 /\ ~ conn'[t].open
                 /\ dbLock' # t
                 /\ svcLock'[call[t].svc] = NoThread]_vars

\* An upsert failed at its commit and stored nothing, and a later call of the
\* same CacheService went through.
FailedThenProceeded ==
  \E t, u \in Threads :
    /\ last[t].op = "add_twitter_screengrab"
    /\ last[t].msg = "database or disk is full"
    /\ screengrabs = {}
    /\ last[u].id > last[t].id
    /\ last[u].svc = last[t].svc
    /\ last[u].kind = "ok"

\* A step of a call that leaves a required argument out.
NullStep(t) == pc'[t] # pc[t] /\ HasNull(call[t].args)

\* C7: a call of add_twitter_screengrab or add_twitter_screengrab_media that
\* leaves a required argument out never returns normally: once its statement
\* has run it has raised IntegrityError (a failure of the storage itself
\* aside), no step of it changes the stored rows, and no stored row has an
\* empty column.
MissingFieldRejected ==
  /\ [](\A t \in Threads :
          HasNull(call[t].args) =>
            /\ pc[t] # "commit"
            /\ ret[t].kind # "ok"
            /\ (pc[t] = "close" /\ dbLock = t) => ret[t].kind = "IntegrityError")
  /\ [](\A t \in Threads : HasNull(last[t].args) => IsError(last[t]))
  /\ [](\A r \in screengrabs : r.account_name # NULL /\ r.status_id # NULL /\ r.s3_path # NULL)
  /\ [](\A r \in medias : MediaNotNull(r))
  /\ [][\A t \in Threads : NullStep(t) => RowsUnchanged]_vars

\* An upsert without a locator raised IntegrityError and the record stored
\* before it is still there.
MissingLocatorRejected ==
  \E t \in Threads :
    /\ last[t].op = "add_twitter_screengrab"
    /\ last[t].args[3] = NULL
    /\ last[t].kind = "IntegrityError"
    /\ \E r \in screengrabs : r.account_name = "alice" /\ r.status_id = "100"

\* The body of a lookup runs in this step.
LookupStep(t) ==
  /\ pc[t] = "execute"
  /\ call[t].op = "get_twitter_screengrab_if_exists"
  /\ pc'[t] # "execute"

\* C8: a lookup raises only when the storage itself fails; otherwise it
\* returns None when the table has no row for the key and, when it has one,
\* that row's locator and instant, whatever the clock shows.
LookupIgnoresAge ==
  [][\A t \in Threads :
       LookupStep(t) =>
         LET stored == { r \in screengrabs :
                           r.account_name = call[t].args[1] /\ r.status_id = call[t].args[2] }
         IN  \/ ret'[t].msg = "disk I/O error"
             \/ /\ ret'[t].kind = "ok"
                /\ IF stored = {}
                   THEN ret'[t].val = <<>>
                   ELSE /\ Len(ret'[t].val) = 1
                        /\ \E r \in stored :
                             /\ ret'[t].val[1].s3_path = r.s3_path
                             /\ InstantOf(ret'[t].val[1].cached_at) = StoredInstant(r.cached_at)]_vars

\* A lookup returned a record written before the current instant.
OldRecordReturned ==
  \E t \in Threads :
    /\ pc[t] = "commit"
    /\ call[t].op = "get_twitter_screengrab_if_exists"
    /\ Len(ret[t].val) = 1
    /\ InstantOf(ret[t].val[1].cached_at) < clock

\* What add_twitter_screengrab_media was given for a returned media record.
MediaArgs(m) == <<m.status_id, m.s3_path, m.source_url, m.media_type>>

\* The committed add-media calls of one status id, in commit order.
AddedFor(status_id) ==
  LET ForStatus(a) == a[1] = status_id
  IN  SelectSeq(mediaLog, ForStatus)

\* C10: for every status id the media list holds exactly the records added
\* for it, in the order they were added (ids ascending), and is empty when
\* none was.
ListMediaInInsertionOrder ==
  \A c \in Statuses :
    LET got == GetMedias(medias, c)
    IN  /\ Len(got) = Len(AddedFor(c))
        /\ \A i \in 1..Len(got) :
             /\ MediaArgs(got[i]) = AddedFor(c)[i]
             /\ i > 1 => got[i - 1].id < got[i].id

\* Two media were added for one status id, the second with the smaller
\* locator, and the list has them in that order.
TwoMediaListed ==
  \E c \in Statuses :
    /\ Len(mediaLog) = 2
    /\ mediaLog[1] = <<c, "p2", "u1", "image">>
    /\ mediaLog[2] = <<c, "p1", "u1", "image">>
    /\ Len(GetMedias(medias, c)) = 2
    /\ GetMedias(medias, c)[1].s3_path = "p2"

\* conn.commit() of an add_twitter_screengrab_media call succeeds.
AddMediaCommit(t) ==
  /\ pc[t] = "commit"
  /\ pc'[t] = "close"
  /\ call[t].op = "add_twitter_screengrab_media"
  /\ ret'[t].kind = "ok"

\* C11: every committed add-media call adds exactly one media record under an
\* id above every id in the table and leaves every other record as it was;
\* so every argument tuple has as many records as calls that added it.
AddMediaAlwaysAppends ==
  [][\A t \in Threads :
       AddMediaCommit(t) =>
         /\ medias \subseteq medias'
         /\ Cardinality(medias') = Cardinality(medias) + 1
         /\ \A n \in medias' \ medias :
              /\ MediaArgs(n) = call[t].args
              /\ \A r \in medias : r.id < n.id]_vars

\* Two calls with the same four arguments were committed and the list of the
\* status id has two records that differ in nothing but the id.
DuplicateMediaListed ==
  \E c \in Statuses :
    /\ Len(mediaLog) = 2
    /\ mediaLog[1] = mediaLog[2]
    /\ mediaLog[1][1] = c
    /\ Len(GetMedias(medias, c)) = 2
    /\ MediaArgs(GetMedias(medias, c)[1]) = MediaArgs(GetMedias(medias, c)[2])
    /\ GetMedias(medias, c)[1].id # GetMedias(medias, c)[2].id

\* The keys that have a screengrab record.
KeysOf(rows) == { <<r.account_name, r.status_id>> : r \in rows }

\* The number of media records of a status id.
MediaCount(rows, status_id) == Cardinality({ r \in rows : r.status_id = status_id })

\* C12: no step of any CacheService method deletes a row: a key that has a
\* screengrab record keeps having one, and no status id ever has fewer media
\* records than before.
NoRowDeleted ==
  [][/\ KeysOf(screengrabs) \subseteq KeysOf(screengrabs')
     /\ \A c \in Statuses : MediaCount(medias, c) <= MediaCount(medias', c)]_vars

\* A screengrab cached at an earlier instant is still there after a later
\* upsert of another key was committed.
OlderRecordKept ==
  \E r, q \in screengrabs :
    /\ StoredInstant(r.cached_at) < StoredInstant(q.cached_at)
    /\ writes[<<q.account_name, q.status_id>>].returned
    /\ <<r.account_name, r.status_id>> # <<q.account_name, q.status_id>>

\* Thread t takes a step of the construction of a CacheService.
InitDbStep(t) ==
  /\ pc[t] # "idle"
  /\ call[t].op = "_init_db"
  /\ pc'[t] # pc[t] \/ conn'[t] # conn[t]

\* The failures of the storage itself, which no call can avoid.
StorageFaults == {"unable to open database file", "disk I/O error", "database or disk is full"}

\* C13: a construction that returns has left both tables and both indexes in
\* the database, whatever was there before; no step of a construction removes
\* a part of the schema or changes a stored screengrab or media record; and
\* on a database that has the whole schema a construction fails only when the
\* storage does.
ConstructionIdempotent ==
  [][\A t \in Threads :
       InitDbStep(t) =>
         /\ screengrabs' = screengrabs
         /\ medias' = medias
         /\ \A k \in Keys : GetIfExists(screengrabs', k[1], k[2]) = GetIfExists(screengrabs, k[1], k[2])
         /\ \A c \in Statuses : GetMedias(medias', c) = GetMedias(medias, c)
         /\ schema \subseteq schema'
         /\ (pc[t] = "release" /\ ret[t].kind = "ok") =>
              (schema = FullSchema /\ constructed'[call[t].svc])
         /\ (schema = FullSchema /\ ret'[t].kind \notin {"none", "ok"}) =>
              ret'[t].msg \in StorageFaults]_vars

\* A second CacheService was constructed on the database after a screengrab
\* and a media record were stored through the first, and both are still
\* there.
ConstructedOverRecords ==
  \E t \in Threads :
    /\ last[t].op = "_init_db"
    /\ last[t].kind = "ok"
    /\ writes[<<"alice", "100">>].returned
    /\ writes[<<"alice", "100">>].id < last[t].id
    /\ Len(mediaLog) = 1
    /\ \A s \in Services : constructed[s]
    /\ Len(GetIfExists(screengrabs, "alice", "100")) = 1
    /\ Len(GetMedias(medias, "100")) = 1

(* ------------------------- the request handler ------------------------ *)

\* The threads that serve requests; the others call the CacheService directly.
HandlerThreads == {"t1"}

\* What identify_visitor makes of the User-Agent, as far as twitter_tweet
\* tells visitors apart.
Visitors == {"DISCORD", "UNKNOWN"}

\* As IsFresh, but a record as old as the TTL still counts as fresh.
IsFreshInclusive(now, cached_at, ttl) ==
  InstantOf(NowUtc(now)) - InstantOf(cached_at) <= Minutes(ttl)

\* datetime.now(timezone.utc) - cached_screengrab[2] < timedelta(minutes = ttl)
IsFresh(now, cached_at, ttl) ==
  InstantOf(NowUtc(now)) - InstantOf(cached_at) < Minutes(ttl)

\* GET /<account_name>/status/<status_id>: the visitor is identified and, with
\* the cache enabled, the cached screengrab is looked up.
Request(t, account_name, status_id, visitor) ==
  /\ hpc[t] = "none"
  /\ pc[t] = "idle"
  /\ requests < MaxRequests
  /\ requests' = requests + 1
  /\ req' = [req EXCEPT ![t] =
       [NoReq EXCEPT !.account_name = account_name, !.status_id = status_id,
                     !.visitor = visitor]]
  /\ IF cacheEnabled
     THEN /\ Enter(t, "s1", "get_twitter_screengrab_if_exists", <<account_name, status_id>>)
          /\ hpc' = [hpc EXCEPT ![t] = "classify"]
     ELSE /\ hpc' = [hpc EXCEPT ![t] = "tweet_info"]
          /\ UNCHANGED <<clock, dbVars, dbLock, svcLock, constructed, pc, call, conn, ret,
                         histVars, calls>>
  /\ UNCHANGED <<cacheEnabled, mosaicVars, visit, hres>>

\* As CacheReadFailed, but the warning is followed by a raise, as in the except
\* clauses further down the handler.
CacheReadFailedRaising == [hpc |-> "none", outcome |-> "500"]

\* "except Exception" of the cache block: a warning is logged and the handler
\* goes on below the block, with no response yet.
CacheReadFailed == [hpc |-> "tweet_info", outcome |-> ""]

\* The lookup has returned or raised.  A raise is logged as a warning; None
\* is a miss; otherwise CACHE_TTL_MINUTES is read (int() of an unset variable
\* raises, which is logged as a warning too) and the age of the record decides.
Classify(t, ttlSet, ttl) ==
  /\ hpc[t] = "classify"
  /\ pc[t] = "idle"
  /\ LET r == hres[t]
         found == r.kind = "ok" /\ Len(r.val) = 1
         fresh == found /\ ttlSet /\ IsFresh(clock, r.val[1].cached_at, ttl)
         class == IF r.kind # "ok" THEN "error"
                  ELSE IF ~ found THEN "miss"
                  ELSE IF ~ ttlSet THEN "error"
                  ELSE IF fresh THEN "hit"
                  ELSE "miss"
     IN  /\ found \/ (ttlSet /\ ttl = 0)
         /\ req' = [req EXCEPT ![t].class = class,
                               ![t].ttl = IF found /\ ttlSet THEN ttl ELSE 0,
                               ![t].now = IF found /\ ttlSet THEN clock ELSE 0,
                               ![t].cached = IF found THEN InstantOf(r.val[1].cached_at) ELSE 0,
                               ![t].read_failed = r.kind # "ok",
                               ![t].outcome = IF class = "error" THEN CacheReadFailed.outcome
                                              ELSE IF fresh /\ req[t].visitor = "DISCORD"
                                              THEN "discord_embed" ELSE ""]
         /\ hpc' = [hpc EXCEPT ![t] =
              IF class = "error" THEN CacheReadFailed.hpc
              ELSE IF ~ fresh THEN "tweet_info"
              ELSE IF req[t].visitor = "DISCORD" THEN "none"
              ELSE "hit_medias"]
  /\ UNCHANGED <<clock, dbVars, dbLock, svcLock, constructed, pc, call, conn, ret, histVars,
                 calls, cacheEnabled, mosaicVars, visit, hres, requests>>

\* As HitMedias, but the hit writes the record again before the page is
\* rendered.
HitMediasRefreshing(t) ==
  /\ hpc[t] = "hit_medias"
  /\ pc[t] = "idle"
  /\ Enter(t, "s1", "add_twitter_screengrab",
           <<req[t].account_name, req[t].status_id, hres[t].val[1].s3_path>>)
  /\ hpc' = [hpc EXCEPT ![t] = "hit_render"]
  /\ UNCHANGED <<cacheEnabled, mosaicVars, visit, req, hres, requests>>

\* On a hit for a visitor other than Discord, the media records are listed.
HitMedias(t) ==
  /\ hpc[t] = "hit_medias"
  /\ pc[t] = "idle"
  /\ Enter(t, "s1", "get_twitter_screengrab_medias", <<req[t].status_id>>)
  /\ hpc' = [hpc EXCEPT ![t] = "hit_render"]
  /\ UNCHANGED <<cacheEnabled, mosaicVars, visit, req, hres, requests>>

\* The media list has returned: the download page is rendered.  If it raised,
\* the except clause of the cache block logs a warning and the handler goes on
\* as after a miss.
HitRender(t) ==
  /\ hpc[t] = "hit_render"
  /\ pc[t] = "idle"
  /\ IF hres[t].kind = "ok"
     THEN /\ req' = [req EXCEPT ![t].outcome = "download"]
          /\ hpc' = [hpc EXCEPT ![t] = "none"]
     ELSE /\ req' = [req EXCEPT ![t].read_failed = TRUE,
                                ![t].outcome = CacheReadFailed.outcome]
          /\ hpc' = [hpc EXCEPT ![t] = CacheReadFailed.hpc]
  /\ UNCHANGED <<clock, dbVars, dbLock, svcLock, constructed, pc, call, conn, ret, histVars,
                 calls, cacheEnabled, mosaicVars, visit, hres, requests>>

\* What twitter_service.get_tweet_info leaves in tweet_info: nothing when it
\* raised ("unbound"), or a Tweet as twitter_service.py declares it, which has
\* neither media_extended nor media_urls ("Tweet").
DeclaredTweetInfos == {"unbound", "Tweet"}

\* The handler reads tweet_info.media_extended and tweet_info.media_urls: the
\* metadata source it is written for supplies, per post, one descriptor
\* {url, type, size} for each attached media ("TweetWithMedia").
TweetInfos == DeclaredTweetInfos \cup {"TweetWithMedia"}

\* twitter_service.get_tweet_info: an exception is logged and swallowed, which
\* leaves tweet_info unbound.
GetTweetInfo(t, tweet, n) ==
  /\ hpc[t] = "tweet_info"
  /\ tweet = "TweetWithMedia" \/ n = 0
  /\ req' = [req EXCEPT ![t].tweet = tweet, ![t].n = n]
  /\ hpc' = [hpc EXCEPT ![t] = "media"]
  /\ UNCHANGED <<clock, dbVars, dbLock, svcLock, constructed, pc, call, conn, ret, histVars,
                 calls, cacheEnabled, mosaicVars, visit, hres, requests>>

\* An except clause logs a warning and raises again, and nothing further out
\* catches the exception: the request is answered with an error.
Abort(t, stage, error) ==
  /\ req' = [req EXCEPT ![t].outcome = "500", ![t].stage = stage, ![t].error = error]
  /\ hpc' = [hpc EXCEPT ![t] = "none"]

\* The handler takes a step that calls no CacheService method.
HandlerOnly ==
  UNCHANGED <<clock, dbVars, dbLock, svcLock, constructed, pc, call, conn, ret, histVars,
              calls, cacheEnabled, mosaicVars, visit, hres, requests>>

\* "for media in tweet_info.media_extended": class Tweet has no attribute
\* media_extended, and an unbound tweet_info cannot be read at all; either way
\* the exception is logged and raised again.  With the attribute, the loop
\* takes the next descriptor or ends.
FetchMedia(t) ==
  /\ hpc[t] = "media"
  /\ IF req[t].tweet # "TweetWithMedia"
     THEN Abort(t, "media_extended",
                IF req[t].tweet = "Tweet" THEN "AttributeError" ELSE "UnboundLocalError")
     ELSE /\ req' = req
          /\ hpc' = [hpc EXCEPT ![t] = IF req[t].i < req[t].n THEN "get_media" ELSE "mosaic"]
  /\ HandlerOnly

\* requests.get(media["url"]) and raise_for_status().
DownloadMedia(t, ok) ==
  /\ hpc[t] = "get_media"
  /\ IF ok
     THEN /\ req' = req
          /\ hpc' = [hpc EXCEPT ![t] = "upload_media"]
     ELSE Abort(t, "requests.get", "HTTPError")
  /\ HandlerOnly

\* s3_key of a media file.
MediaS3Key(status_id, url) == "twitter/media/" \o status_id \o "_" \o url

\* What storage_service.upload_file does: it returns True, returns False
\* after a ClientError it caught and logged, or raises any other exception.
UploadResults == {"True", "False", "raise"}

\* The media is uploaded and, whatever upload_file returned, recorded with
\* add_twitter_screengrab_media; an exception of the upload is logged and
\* raised again.
UploadMedia(t, result) ==
  /\ hpc[t] = "upload_media"
  /\ pc[t] = "idle"
  /\ IF result = "raise"
     THEN /\ Abort(t, "upload_file", "Exception")
          /\ HandlerOnly
     ELSE /\ AddTwitterScreengrabMedia(t, "s1", req[t].status_id,
                                       MediaS3Key(req[t].status_id, "u1"), "u1", "image")
          /\ req' = req
          /\ hpc' = [hpc EXCEPT ![t] = "media_cached"]
          /\ UNCHANGED <<cacheEnabled, mosaicVars, visit, hres, requests>>

\* add_twitter_screengrab_media is back: the loop goes on, or the exception is
\* logged ("Error uploading to cache") and raised again, twice.
MediaCached(t) ==
  /\ hpc[t] = "media_cached"
  /\ pc[t] = "idle"
  /\ IF hres[t].kind = "ok"
     THEN /\ req' = [req EXCEPT ![t].i = @ + 1]
          /\ hpc' = [hpc EXCEPT ![t] = "media"]
     ELSE Abort(t, "add_twitter_screengrab_media", hres[t].kind)
  /\ HandlerOnly

\* With more than one media, the mosaic is composed and uploaded; an
\* exception of either is logged and raised again.
Mosaic(t, ok) ==
  /\ hpc[t] = "mosaic"
  /\ IF req[t].n > 1 /\ ~ ok
     THEN Abort(t, "create_mosaic", "Exception")
     ELSE /\ req' = req
          /\ hpc' = [hpc EXCEPT ![t] = "screenshot"]
  /\ HandlerOnly

\* screengrabber_service.get_screenshot of the render page.
GetScreenshot(t, ok) ==
  /\ hpc[t] = "screenshot"
  /\ IF ok
     THEN /\ req' = req
          /\ hpc' = [hpc EXCEPT ![t] = "upload_render"]
     ELSE Abort(t, "get_screenshot", "Exception")
  /\ HandlerOnly

\* s3_path of the render: the status id and the time in seconds.
RenderS3Path(status_id, now) ==
  "twitter/renders/" \o status_id \o "_" \o ToString(now \div USec) \o ".jpg"

\* The render is uploaded; an exception is logged and raised again.  The
\* value upload_file returns is not looked at: the screengrab is recorded with
\* add_twitter_screengrab next.
UploadRender(t, result) ==
  /\ hpc[t] = "upload_render"
  /\ pc[t] = "idle"
  /\ IF result = "raise"
     THEN /\ Abort(t, "upload_file", "Exception")
          /\ HandlerOnly
     ELSE /\ AddTwitterScreengrab(t, "s1", req[t].account_name, req[t].status_id,
                                  RenderS3Path(req[t].status_id, clock))
          /\ req' = [req EXCEPT ![t].upload = result,
                                ![t].s3_path = RenderS3Path(req[t].status_id, clock)]
          /\ hpc' = [hpc EXCEPT ![t] = "render_cached"]
          /\ UNCHANGED <<cacheEnabled, mosaicVars, visit, hres, requests>>

\* add_twitter_screengrab is back.  An exception is logged ("Error inserting
\* into CacheService") and raised again, twice.  Otherwise Discord gets the
\* embed page, a render_only request the image, and any other visitor the
\* download page, for which the media records are listed.
RenderCached(t, render_only) ==
  /\ hpc[t] = "render_cached"
  /\ pc[t] = "idle"
  /\ IF hres[t].kind # "ok"
     THEN /\ Abort(t, "add_twitter_screengrab", hres[t].kind)
          /\ HandlerOnly
     ELSE IF req[t].visitor = "DISCORD" \/ render_only
     THEN /\ req' = [req EXCEPT ![t].outcome =
                       IF req[t].visitor = "DISCORD" THEN "discord_embed" ELSE "send_file"]
          /\ hpc' = [hpc EXCEPT ![t] = "none"]
          /\ HandlerOnly
     ELSE /\ GetTwitterScreengrabMedias(t, "s1", req[t].status_id)
          /\ req' = req
          /\ hpc' = [hpc EXCEPT ![t] = "respond"]
          /\ UNCHANGED <<cacheEnabled, mosaicVars, visit, hres, requests>>

\* The media list for the download page is back; its exception is caught by
\* nothing.
Respond(t) ==
  /\ hpc[t] = "respond"
  /\ pc[t] = "idle"
  /\ IF hres[t].kind = "ok"
     THEN /\ req' = [req EXCEPT ![t].outcome = "download"]
          /\ hpc' = [hpc EXCEPT ![t] = "none"]
     ELSE Abort(t, "get_twitter_screengrab_medias", hres[t].kind)
  /\ HandlerOnly

\* As Init, with the cache enabled or not.
InitHandler ==
  /\ clock = 0
  /\ screengrabs = {}
  /\ medias = {}
  /\ mediaSeq = 0
  /\ schema = FullSchema
  /\ dbLock = NoThread
  /\ svcLock = [s \in Services |-> NoThread]
  /\ constructed = [s \in Services |-> s = "s1"]
  /\ pc = [t \in Threads |-> "idle"]
  /\ call = [t \in Threads |-> NoCall]
  /\ conn = [t \in Threads |-> NoConn]
  /\ ret = [t \in Threads |-> NoRet]
  /\ last = [t \in Threads |-> NoLast]
  /\ writes = [k \in Keys |-> NoWrite]
  /\ mediaLog = <<>>
  /\ calls = 0
  /\ cacheEnabled \in BOOLEAN
  /\ hpc = [t \in Threads |-> "none"]
  /\ req = [t \in Threads |-> NoReq]
  /\ hres = [t \in Threads |-> NoRet]
  /\ requests = 0
  /\ layout = NoLayout
  /\ mosaic = NoMosaic
  /\ earlier = NoEarlier
  /\ returns = <<>>
  /\ visit = NoVisit

\* Requests are served by the handler threads while the other threads upsert
\* the screengrab of one post into the same CacheService.
NextHandler ==
  \/ TickWithin(MaxTtl)
  \/ \E t \in HandlerThreads, k \in Keys, v \in Visitors : Request(t, k[1], k[2], v)
  \/ \E t \in HandlerThreads, ttlSet \in BOOLEAN, ttl \in 0..MaxTtl : Classify(t, ttlSet, ttl)
  \/ \E t \in HandlerThreads : HitMedias(t)
  \/ \E t \in HandlerThreads : HitRender(t)
  \/ \E t \in HandlerThreads, tweet \in DeclaredTweetInfos : GetTweetInfo(t, tweet, 0)
  \/ \E t \in HandlerThreads : FetchMedia(t)
  \/ \E t \in Threads \ HandlerThreads, k \in {<<"alice", "100">>} :
       ApiCall(t) /\ AddTwitterScreengrab(t, "s1", k[1], k[2], "p1")
  \/ \E t \in Threads : Acquire(t)
  \/ \E t \in Threads : Connect(t)
  \/ \E t \in Threads : ConnectFail(t)
  \/ \E t \in Threads : ExecGetTwitterScreengrabIfExists(t)
  \/ \E t \in Threads : ExecAddTwitterScreengrab(t)
  \/ \E t \in Threads : ExecGetTwitterScreengrabMedias(t)
  \/ \E t \in Threads : ExecFail(t)
  \/ \E t \in Threads : Commit(t)
  \/ \E t \in Threads : CommitFail(t)
  \/ \E t \in Threads : Close(t)
  \/ \E t \in Threads : Release(t)

SpecHandler == InitHandler /\ [][NextHandler]_vars

\* One request is served down to its response, for every tweet_info and with
\* every collaborator failing or not, while another thread upserts the
\* screengrab of one post into the same CacheService.
NextMiss ==
  \/ \E t \in HandlerThreads, k \in {<<"alice", "100">>}, v \in Visitors :
       Request(t, k[1], k[2], v)
  \/ \E t \in HandlerThreads, ttlSet \in BOOLEAN, ttl \in 0..MaxTtl : Classify(t, ttlSet, ttl)
  \/ \E t \in HandlerThreads : HitMedias(t)
  \/ \E t \in HandlerThreads : HitRender(t)
  \/ \E t \in HandlerThreads, tweet \in TweetInfos, n \in 0..MaxMedia : GetTweetInfo(t, tweet, n)
  \/ \E t \in HandlerThreads : FetchMedia(t)
  \/ \E t \in HandlerThreads, ok \in BOOLEAN : DownloadMedia(t, ok)
  \/ \E t \in HandlerThreads, result \in UploadResults : UploadMedia(t, result)
  \/ \E t \in HandlerThreads : MediaCached(t)
  \/ \E t \in HandlerThreads, ok \in BOOLEAN : Mosaic(t, ok)
  \/ \E t \in HandlerThreads, ok \in BOOLEAN : GetScreenshot(t, ok)
  \/ \E t \in HandlerThreads, result \in UploadResults : UploadRender(t, result)
  \/ \E t \in HandlerThreads, render_only \in BOOLEAN : RenderCached(t, render_only)
  \/ \E t \in HandlerThreads : Respond(t)
  \/ \E t \in Threads \ HandlerThreads, k \in {<<"alice", "100">>} :
       ApiCall(t) /\ AddTwitterScreengrab(t, "s1", k[1], k[2], "p1")
  \/ \E t \in Threads : Acquire(t)
  \/ \E t \in Threads : Connect(t)
  \/ \E t \in Threads : ConnectFail(t)
  \/ \E t \in Threads : ExecGetTwitterScreengrabIfExists(t)
  \/ \E t \in Threads : ExecAddTwitterScreengrab(t)
  \/ \E t \in Threads : ExecAddTwitterScreengrabMedia(t)
  \/ \E t \in Threads : ExecGetTwitterScreengrabMedias(t)
  \/ \E t \in Threads : ExecFail(t)
  \/ \E t \in Threads : Commit(t)
  \/ \E t \in Threads : CommitFail(t)
  \/ \E t \in Threads : Close(t)
  \/ \E t \in Threads : Release(t)

SpecMiss == InitHandler /\ [][NextMiss]_vars

(* ----------------------- request handler: claims ---------------------- *)

\* The handler decides in this step what the lookup means.
ClassifyStep(t) == hpc[t] = "classify" /\ hpc'[t] # "classify"

\* C9: the handler treats the looked-up record as a hit exactly when the
\* clock, at the moment of the decision, is less than cached_at plus the TTL
\* read at that moment; in every other case (the record as old as the TTL or
\* older, no record, no TTL, a failed lookup) it goes on to recompute.  The
\* decision uses nothing stored but cached_at.
HitIffYoungerThanTtl ==
  [][\A t \in Threads :
       ClassifyStep(t) =>
         LET r == hres[t]
             found == r.kind = "ok" /\ Len(r.val) = 1
         IN  /\ (req'[t].class = "hit") =
                  (/\ found
                   /\ \E m \in 0..MaxTtl :
                        /\ req'[t].ttl = m
                        /\ clock - InstantOf(r.val[1].cached_at) < m * 60 * USec)
             /\ req'[t].class = "hit" => hpc'[t] \in {"none", "hit_medias"}
             /\ req'[t].class # "hit" => hpc'[t] = "tweet_info"]_vars

\* A record exactly one minute old was classified as a miss under a TTL of
\* one minute.
MissAtTtl ==
  \E t \in Threads :
    /\ req[t].class = "miss"
    /\ req[t].ttl = 1
    /\ req[t].now - req[t].cached = Minutes(1)
    /\ hpc[t] = "tweet_info"

\* The request has been answered with a page or the image.
Answered(t) == hpc[t] = "none" /\ req[t].outcome \in {"discord_embed", "download", "send_file"}

\* The CacheService methods that write.
CacheWrites == {"add_twitter_screengrab_media", "add_twitter_screengrab"}

ReadFailedStep(t) ==
  /\ hpc[t] \in {"classify", "hit_render"}
  /\ hpc'[t] # hpc[t]
  /\ hres[t].kind \notin {"none", "ok"}

ServedFromCache(t) ==
  /\ hpc[t] \in {"hit_medias", "hit_render", "none"}
  /\ req[t].tweet = ""
  /\ req[t].s3_path = ""
  /\ req[t].stage = ""
  /\ req[t].outcome \in {"", "discord_embed", "download"}
  /\ pc[t] # "idle" => call[t].op \notin CacheWrites

\* A step of the handler on thread t, in twitter_tweet or in the CacheService
\* call it made.
HandlerStep(t) == hpc'[t] # hpc[t] \/ (hpc[t] # "none" /\ pc'[t] # pc[t])

\* C30 as stated: on a cache hit the handler answers from the stored locator,
\* recomputes nothing and writes nothing.
HitNeverRecomputes ==
  \A t \in HandlerThreads : req[t].class = "hit" => ServedFromCache(t)

\* C30: on a cache hit whose media list, if it is read, does not fail, the
\* handler answers from the stored locator, asks neither the tweet, the
\* renderer, the mosaic nor the storage, and its steps leave the rows of both
\* tables, cached_at included, as they are.
HitServedFromCache ==
  /\ [](\A t \in HandlerThreads :
          req[t].class = "hit" /\ ~ req[t].read_failed => ServedFromCache(t))
  /\ [][\A t \in HandlerThreads :
          req[t].class = "hit" /\ ~ req'[t].read_failed /\ HandlerStep(t) => RowsUnchanged]_vars

\* A hit was answered with the download page, the media list read, and the
\* record is as old as it was when it was looked up.
HitAnswered ==
  \E t \in HandlerThreads :
    /\ hpc[t] = "none"
    /\ req[t].class = "hit"
    /\ req[t].outcome = "download"
    /\ last[t].op = "get_twitter_screengrab_medias"
    /\ \E r \in screengrabs :
         /\ r.account_name = req[t].account_name
         /\ r.status_id = req[t].status_id
         /\ StoredInstant(r.cached_at) = req[t].cached

(* ------------------------- MosaicService: claims ---------------------- *)

\* C17: create_mosaic called with no images raises ValueError before any
\* canvas is allocated, and returns nothing.
EmptyInputRaises ==
  /\ mosaic.images = <<>> => mosaic.canvas = <<>> /\ mosaic.returned = <<>>
  /\ mosaic.images = <<>> /\ mosaic.place \notin {"idle", "layout"} =>
       /\ mosaic.place = "done"
       /\ mosaic.raised = "ValueError"
       /\ layout.rows = <<>>

\* create_mosaic([]) has raised.
EmptyInputRaised ==
  /\ mosaic.place = "done"
  /\ mosaic.images = <<>>
  /\ mosaic.raised = "ValueError"
  /\ mosaic.logged = <<"Error creating mosaic">>

\* An image of the call in progress failed to open or to resize.
ImageFailed ==
  \E i \in DOMAIN mosaic.logged : mosaic.logged[i] = "Error processing image in mosaic"

\* C18: when an image fails to decode or to resize, at whatever position,
\* create_mosaic ends by raising and returns no bytes; the bytes it returns
\* are a mosaic of all the images.
NoPartialMosaic ==
  /\ ImageFailed =>
       /\ mosaic.place = "done"
       /\ mosaic.raised # ""
       /\ mosaic.returned = <<>>
  /\ mosaic.returned # <<>> =>
       /\ mosaic.raised = ""
       /\ Len(mosaic.returned[1].pasted) = Len(mosaic.images)

\* The third of three images failed after two had been pasted.
FailedAfterTwoPasted ==
  /\ mosaic.place = "done"
  /\ ImageFailed
  /\ Len(mosaic.images) = 3
  /\ Len(mosaic.pasted) = 2
  /\ mosaic.raised = "UnidentifiedImageError"

\* What a row takes of the width: its image widths and the borders between
\* them.
RowTotal(row) == TotalScaledWidth(row, Len(row)) + layout.border_size * (Len(row) - 1)

\* The layout of the call in progress has been computed.
LayoutComputed == mosaic.place \in {"canvas", "paste", "save"} \/ mosaic.returned # <<>>

\* C19 as stated: every row of a computed layout takes the target width to
\* within one pixel.
RowsFillTargetWidthWithinOne ==
  \A r \in DOMAIN layout.rows :
    /\ RowTotal(layout.rows[r]) >= layout.target_width - 1
    /\ RowTotal(layout.rows[r]) <= layout.target_width + 1

\* C19: every row of a computed layout takes at most the target width and
\* falls short of it by at most one pixel for each of its images; the images
\* of aspect ratios 1.0 and 1.02 make one row that takes 1200 to within one.
RowsFillTargetWidth ==
  /\ \A r \in DOMAIN layout.rows :
       /\ RowTotal(layout.rows[r]) <= layout.target_width
       /\ RowTotal(layout.rows[r]) >= layout.target_width - Len(layout.rows[r])
  /\ LayoutComputed /\ mosaic.images = << <<100, 100>>, <<102, 100>> >> =>
       /\ Len(layout.rows) = 1
       /\ Len(layout.rows[1]) = 2
       /\ RowTotal(layout.rows[1]) \in {1199, 1200, 1201}

\* A row of three images that is two pixels short of the target width.
RowOfThreeTwoShort ==
  /\ LayoutComputed
  /\ \E r \in DOMAIN layout.rows :
       /\ Len(layout.rows[r]) = 3
       /\ RowTotal(layout.rows[r]) = layout.target_width - 2

\* The greatest height of the images of a row.
MaxScaledHeight(row) ==
  CHOOSE h \in { row[i][2][2] : i \in DOMAIN row } :
    \A i \in DOMAIN row : row[i][2][2] <= h

\* The sum of the greatest heights of the rows.
RECURSIVE SumOfMaxScaledHeights(_)
SumOfMaxScaledHeights(rows) ==
  IF rows = <<>> THEN 0
  ELSE MaxScaledHeight(Head(rows)) + SumOfMaxScaledHeights(Tail(rows))

\* C20: for images that are not empty the dimensions calculate_layout returns
\* are the target width and the sum of the greatest heights of the rows plus
\* one border between two rows; aspect ratios 1.0 and 3.0 make two rows and
\* the height of the first, 10, and the height of the second.
CanvasDimensions ==
  /\ LayoutComputed =>
       /\ mosaic.images # <<>>
       /\ mosaic.size[1] = layout.target_width
       /\ mosaic.size[2] = SumOfMaxScaledHeights(layout.rows)
                             + layout.border_size * (Len(layout.rows) - 1)
       /\ mosaic.canvas # <<>> => mosaic.canvas[1] = mosaic.size
  /\ LayoutComputed /\ mosaic.images = << <<100, 100>>, <<300, 100>> >> =>
       /\ Len(layout.rows) = 2
       /\ mosaic.size[2] = layout.rows[1][1][2][2] + 10 + layout.rows[2][1][2][2]

\* The canvas of two rows for the aspect ratios 1.0 and 3.0: 1200 by
\* 1200 + 10 + 400.
CanvasOfTwoRows ==
  /\ mosaic.images = << <<100, 100>>, <<300, 100>> >>
  /\ Len(layout.rows) = 2
  /\ mosaic.canvas = << <<1200, 1610>> >>

\* The number of images in the rows before row r.
RECURSIVE ImagesBefore(_, _)
ImagesBefore(rows, r) == IF r <= 1 THEN 0 ELSE ImagesBefore(rows, r - 1) + Len(rows[r - 1])

\* C21: no row of a computed layout holds more than 3 images, and an image
\* that combines with the one before it starts a new row only when the row
\* before holds 3.
RowsHoldAtMostThree ==
  /\ \A r \in DOMAIN layout.rows : Len(layout.rows[r]) <= 3
  /\ LayoutComputed =>
       \A r \in DOMAIN layout.rows :
         LET first == ImagesBefore(layout.rows, r) + 1
         IN  r > 1 /\ ShouldCombineHorizontally(mosaic.images[first - 1], mosaic.images[first])
               => Len(layout.rows[r - 1]) = 3

\* A fourth image of the aspect ratio of the three before it, in a row of
\* its own.
FourthImageStartsRow ==
  /\ LayoutComputed
  /\ Len(mosaic.images) = 4
  /\ \A i \in 2..4 : mosaic.images[i] = mosaic.images[1]
  /\ Len(layout.rows) = 2
  /\ Len(layout.rows[1]) = 3
  /\ Len(layout.rows[2]) = 1

\* The grouping of a layout: the number of images of each of its rows.
GroupingOf(rows) == [r \in DOMAIN rows |-> Len(rows[r])]

\* The scaled sizes of a layout, row by row.
ScaledSizesOf(rows) == [r \in DOMAIN rows |-> [i \in DOMAIN rows[r] |-> rows[r][i][2]]]

\* The layout step of the call in progress is over.
LayoutReturned == mosaic.place \in {"canvas", "paste", "save", "done"}

\* C22: a create_mosaic call given the images of an earlier call (the default
\* width and border both times) groups them into the same rows and computes
\* the same scaled sizes and the same canvas dimensions, whatever calls were
\* made before or in between.
SameImagesSameLayout ==
  earlier.seen /\ LayoutReturned /\ mosaic.images = earlier.images =>
    /\ GroupingOf(mosaic.rows) = GroupingOf(earlier.rows)
    /\ ScaledSizesOf(mosaic.rows) = ScaledSizesOf(earlier.rows)
    /\ mosaic.size = earlier.size

\* A later call with the two images of the observed call has its layout.
RepeatedAfterOtherCall ==
  /\ earlier.seen
  /\ Len(earlier.images) = 2
  /\ earlier.raised = ""
  /\ mosaic.place = "canvas"
  /\ mosaic.images = earlier.images
  /\ layout.images = mosaic.images
  /\ Len(mosaic.rows) = 1

\* C23 as stated: a single image is accepted; the layout is one row of that
\* one image, and the canvas is the target width by the scaled height of the
\* image, with no border.
SingleImageAccepted ==
  Len(mosaic.images) = 1 /\ LayoutReturned =>
    /\ mosaic.raised # "ZeroDivisionError"
    /\ Len(mosaic.rows) = 1
    /\ Len(mosaic.rows[1]) = 1
    /\ mosaic.rows[1][1][1] = mosaic.images[1]
    /\ mosaic.size = <<layout.target_width, mosaic.rows[1][1][2][2]>>

\* The images of the rows, one after the other.
RECURSIVE ImagesOfRows(_)
ImagesOfRows(rows) ==
  IF rows = <<>> THEN <<>>
  ELSE [i \in DOMAIN Head(rows) |-> Head(rows)[i][1]] \o ImagesOfRows(Tail(rows))

\* The row that holds the i-th image of the rows.
RowOfImage(rows, i) ==
  CHOOSE r \in DOMAIN rows :
    ImagesBefore(rows, r) < i /\ i <= ImagesBefore(rows, r) + Len(rows[r])

\* The aspect ratios w1/h1 and w2/h2 differ by at most a fifth of the larger.
WithinTolerance(img1, img2) ==
  LET a == img1[1] * img2[2]
      b == img2[1] * img1[2]
  IN  5 * (IF a >= b THEN a - b ELSE b - a) <= (IF a >= b THEN a ELSE b)

LayoutArithmeticSafe ==
  mosaic.images # <<>> /\ LayoutReturned =>
    /\ mosaic.raised # "ZeroDivisionError"
    /\ \A r \in DOMAIN mosaic.rows : \A i \in DOMAIN mosaic.rows[r] :
         mosaic.rows[r][i][2][1] >= 1 /\ mosaic.rows[r][i][2][2] >= 1
    /\ mosaic.size[2] >= 1

\* C28 as stated: a second calculate_layout on the same MosaicLayout, its
\* images unchanged, returns the rows and the dimensions the first returned.
CalculateLayoutRepeatable ==
  Len(returns) >= 2 /\ returns[1].raised = "" =>
    /\ returns[2].raised = ""
    /\ Len(returns[2].rows) = Len(returns[1].rows)
    /\ ScaledSizesOf(returns[2].rows) = ScaledSizesOf(returns[1].rows)
    /\ returns[2].size = returns[1].size

(* ------------------------ identify_visitor: claims -------------------- *)

\* The value of Visitor i occurs in the text, whatever the case of its letters.
Occurs(i, text) ==
  LET value == VisitorEnum[i][2]
  IN  \E at \in 0..(Len(text) - Len(value)) :
        \A k \in 1..Len(value) :
          LowerChar(SubSeq(text, at + k, at + k)) = SubSeq(value, k, k)

\* The Visitor members that can be returned for a match.
Matchable == { i \in DOMAIN VisitorEnum : VisitorEnum[i][1] # "UNKNOWN" }

\* C24: identify_visitor returns the first Visitor, in the order of the
\* declaration and UNKNOWN left out, whose value occurs in the user agent
\* whatever the case; UNKNOWN when none occurs, as for the empty text; and it
\* raises AttributeError for None.
FirstVisitorInOrder ==
  visit.place = "done" =>
    LET ua == visit.arg
    IN  /\ (visit.raised = "AttributeError") = (ua = NULL)
        /\ visit.raised \in {"", "AttributeError"}
        /\ ua = NULL => visit.returned = ""
        /\ ua # NULL =>
             /\ \A i \in Matchable :
                  (visit.returned = VisitorEnum[i][1]) =
                    (Occurs(i, ua) /\ \A j \in Matchable : j < i => ~ Occurs(j, ua))
             /\ (visit.returned = "UNKNOWN") = (\A i \in Matchable : ~ Occurs(i, ua))
        /\ ua = "" => visit.returned = "UNKNOWN"
        /\ ua \in {"DISCORDBOT", "discordBOT", "discordbot"} => visit.returned = "DISCORD"
        /\ ua = "TelegramBot (like TwitterBot" => visit.returned = "TELEGRAM"
        /\ ua = "TwitterBotTelegramBot (like " => visit.returned = "TELEGRAM"

\* A user agent that names the Telegram bot and the Twitter bot was taken for
\* Telegram's.
TelegramBeforeTwitter ==
  /\ visit.place = "done"
  /\ visit.arg = "TelegramBot (like TwitterBot"
  /\ visit.returned = "TELEGRAM"

\* A step of the call thread t has in progress.
CallStep(t) == pc[t] # "idle" /\ pc'[t] # pc[t]

\* The rows of twitter_screengrabs of another key than that of args.
OtherKeys(rows, args) ==
  { r \in rows : ~ (r.account_name = args[1] /\ r.status_id = args[2]) }

\* C29: add_twitter_screengrab leaves the rows of every other key and all
\* media rows as they are; add_twitter_screengrab_media leaves all screengrab
\* rows and the media rows stored before as they are; the two reading methods
\* change no row.
OperationsChangeOnlyTheirOwn ==
  [][\A t \in Threads : CallStep(t) =>
       /\ call[t].op = "add_twitter_screengrab" =>
            /\ OtherKeys(screengrabs', call[t].args) = OtherKeys(screengrabs, call[t].args)
            /\ medias' = medias
            /\ mediaSeq' = mediaSeq
       /\ call[t].op = "add_twitter_screengrab_media" =>
            /\ screengrabs' = screengrabs
            /\ medias \subseteq medias'
       /\ call[t].op \in {"get_twitter_screengrab_if_exists",
                          "get_twitter_screengrab_medias"} => RowsUnchanged]_vars

\* A record was written after a media row of its status id was stored, and
\* the media row is there.
UpsertBesideMedia ==
  \E k \in Keys :
    /\ writes[k].id = 2
    /\ writes[k].returned
    /\ Len(mediaLog) = 1
    /\ \E m \in medias : m.status_id = k[2]

(* ---------------------- CacheService: liveness claims ----------------- *)

\* C27: under fair scheduling every CacheService call that was started gets
\* the lock of its object, ends and has released the lock; no call waits for
\* a lock its own thread holds.
EveryCallFinishes ==
  /\ [](\A t \in Threads : pc[t] = "acquire" => svcLock[call[t].svc] # t)
  /\ \A t \in Threads : (pc[t] = "acquire") ~> (InCritical(t) /\ svcLock[call[t].svc] = t)
  /\ \A t \in Threads :
       (pc[t] # "idle") ~> (pc[t] = "idle" /\ \A s \in Services : svcLock[s] # t)

\* A call that waited for the lock while another call held it returned, after
\* a call that failed; no lock is held.
WaitingCallFinished ==
  /\ \A t \in Threads : pc[t] = "idle"
  /\ \A s \in Services : svcLock[s] = NoThread
  /\ \E t \in Threads, u \in Threads :
       /\ t # u
       /\ last[t].overlapped # 0
       /\ last[u].id = last[t].overlapped
       /\ IsError(last[t])

\* ---------------------------------------------------------------------------
\* MosaicService: claims about the pasted rectangles
\* ---------------------------------------------------------------------------

\* The rectangles p and q have a pixel in common.
RectanglesOverlap(p, q) ==
  /\ p.x < q.x + q.width
  /\ q.x < p.x + p.width
  /\ p.y < q.y + q.height
  /\ q.y < p.y + p.height

\* The lowest edge of the rectangles pasted for row r.
PastedRowBottom(r) ==
  LET ks == { k \in DOMAIN mosaic.pasted : RowOfImage(mosaic.rows, k) = r }
      k == CHOOSE i \in ks :
             \A j \in ks : mosaic.pasted[j].y + mosaic.pasted[j].height
                             <= mosaic.pasted[i].y + mosaic.pasted[i].height
  IN  mosaic.pasted[k].y + mosaic.pasted[k].height

\* C31: while a computed layout is rendered every image is pasted at a
\* rectangle inside the canvas (0 <= x, x + width <= target width, 0 <= y,
\* y + height <= canvas height), no two pasted rectangles overlap, an image
\* starts exactly border_size right of the image before it in its row, a row
\* starts at the left edge exactly border_size under the row before it, and
\* after the last row y_offset is the canvas height calculate_layout returned.
PastedInsideCanvasApart ==
  /\ \A k \in DOMAIN mosaic.pasted :
       LET p == mosaic.pasted[k]
       IN  /\ 0 <= p.x
           /\ p.x + p.width <= layout.target_width
           /\ 0 <= p.y
           /\ p.y + p.height <= mosaic.size[2]
           /\ <<p.width, p.height>> =
                mosaic.rows[RowOfImage(mosaic.rows, k)]
                           [k - ImagesBefore(mosaic.rows, RowOfImage(mosaic.rows, k))][2]
  /\ \A j, k \in DOMAIN mosaic.pasted :
       j < k => ~ RectanglesOverlap(mosaic.pasted[j], mosaic.pasted[k])
  /\ \A k \in DOMAIN mosaic.pasted :
       k > 1 =>
         LET p == mosaic.pasted[k - 1]
             q == mosaic.pasted[k]
         IN  IF RowOfImage(mosaic.rows, k) = RowOfImage(mosaic.rows, k - 1)
             THEN /\ q.x = p.x + p.width + mosaic.border_size
                  /\ q.y = p.y
             ELSE /\ RowOfImage(mosaic.rows, k) = RowOfImage(mosaic.rows, k - 1) + 1
                  /\ q.x = 0
                  /\ q.y = PastedRowBottom(RowOfImage(mosaic.rows, k - 1)) + mosaic.border_size
  /\ mosaic.pasted # <<>> => mosaic.pasted[1].x = 0 /\ mosaic.pasted[1].y = 0
  /\ mosaic.place = "save" \/ mosaic.returned # <<>> =>
       /\ mosaic.y_offset = mosaic.size[2]
       /\ mosaic.rows # <<>> =>
            mosaic.size[2] = PastedRowBottom(Len(mosaic.rows))

\* Four images pasted in two rows, one of them of several images, and the
\* mosaic returned.
FourPastedInTwoRows ==
  /\ mosaic.returned # <<>>
  /\ Len(mosaic.pasted) = 4
  /\ Len(mosaic.rows) = 2
  /\ \E r \in DOMAIN mosaic.rows : Len(mosaic.rows[r]) >= 2
  /\ mosaic.pasted[4].y > 0
  /\ mosaic.y_offset = mosaic.size[2]

====
